---- MODULE Spec2Model ----
(***************************************************************************)
(* Launch-data verifier, identity extractor and tip handler of             *)
(* StudentioBot (src/lib/verifyTelegram.js, src/pages/api/tip.js).          *)
(*                                                                         *)
(* A JavaScript string is a sequence of code points (all text of the model *)
(* is in the Basic Multilingual Plane, so a code point is a UTF-16 code     *)
(* unit); a byte array is a sequence of 0..255.                             *)
(***************************************************************************)
EXTENDS Integers, Sequences, FiniteSets, TLC

\* ------------------------------------------------------------------------
\* Text: code points used by the parsers, and the literals of the source
\* ------------------------------------------------------------------------

\* Code points the parsers test for.
CP ==
  [ tab |-> 9, nl |-> 10, cr |-> 13, sp |-> 32, quote |-> 34, pct |-> 37,
    amp |-> 38, plus |-> 43, comma |-> 44, minus |-> 45, dot |-> 46,
    zero |-> 48, nine |-> 57, colon |-> 58, eq |-> 61, qmark |-> 63,
    upA |-> 65, upE |-> 69, upF |-> 70, lbracket |-> 91, backslash |-> 92,
    rbracket |-> 93,
    lowA |-> 97, lowE |-> 101, lowF |-> 102, lbrace |-> 123, rbrace |-> 125,
    replacement |-> 65533 ]

\* "WebAppData"
WebAppData == <<87, 101, 98, 65, 112, 112, 68, 97, 116, 97>>
\* "hash"
HashName == <<104, 97, 115, 104>>
\* "user"
UserName == <<117, 115, 101, 114>>
\* "id"
IdName == <<105, 100>>
\* "__proto__"
ProtoName == <<95, 95, 112, 114, 111, 116, 111, 95, 95>>
\* "null", "true", "false", "undefined", "[object Object]"
TxtNull == <<110, 117, 108, 108>>
TxtTrue == <<116, 114, 117, 101>>
TxtFalse == <<102, 97, 108, 115, 101>>
TxtUndefined == <<117, 110, 100, 101, 102, 105, 110, 101, 100>>
TxtObject == <<91, 111, 98, 106, 101, 99, 116, 32, 79, 98, 106, 101, 99, 116, 93>>

\* Position of the first c in s, 0 when there is none (String.prototype.indexOf + 1).
IndexOf(s, c) ==
  IF \E i \in 1..Len(s) : s[i] = c
  THEN CHOOSE i \in 1..Len(s) : s[i] = c /\ \A j \in 1..(i - 1) : s[j] # c
  ELSE 0

\* s from position i to its end.
From(s, i) == SubSeq(s, i, Len(s))

\* s split at every c.
RECURSIVE SplitOn(_, _)
SplitOn(s, c) ==
  LET i == IndexOf(s, c)
  IN  IF i = 0 THEN <<s>> ELSE <<SubSeq(s, 1, i - 1)>> \o SplitOn(From(s, i + 1), c)

\* The concatenation of the strings of ss.
RECURSIVE Flatten(_)
Flatten(ss) ==
  IF ss = <<>> THEN <<>>
  ELSE IF Len(ss) = 1 THEN ss[1]
  ELSE LET half == Len(ss) \div 2
       IN  Flatten(SubSeq(ss, 1, half)) \o Flatten(SubSeq(ss, half + 1, Len(ss)))

\* The strings of ss joined by sep (Array.prototype.join).
Join(ss, sep) ==
  Flatten([i \in 1..Len(ss) |-> IF i = 1 THEN ss[i] ELSE sep \o ss[i]])

\* s < t by code units, the order of Array.prototype.sort() without comparator.
StrLess(s, t) ==
  \/ Len(s) < Len(t) /\ SubSeq(t, 1, Len(s)) = s
  \/ \E k \in 1..Len(s) :
       /\ k <= Len(t)
       /\ SubSeq(s, 1, k - 1) = SubSeq(t, 1, k - 1)
       /\ s[k] < t[k]

\* ------------------------------------------------------------------------
\* URLSearchParams (application/x-www-form-urlencoded parsing)
\* ------------------------------------------------------------------------

IsHexDigit(c) ==
  \/ c \in CP.zero..CP.nine
  \/ c \in CP.upA..CP.upF
  \/ c \in CP.lowA..CP.lowF

HexValue(c) ==
  IF c \in CP.zero..CP.nine THEN c - CP.zero
  ELSE IF c \in CP.upA..CP.upF THEN c - CP.upA + 10
  ELSE c - CP.lowA + 10

\* An escape %XY with two hex digits starts at i.
EscapeAt(s, i) ==
  /\ s[i] = CP.pct
  /\ i + 2 <= Len(s)
  /\ IsHexDigit(s[i + 1])
  /\ IsHexDigit(s[i + 2])

\* Percent-decoding of a byte sequence: %XY with two hex digits is one byte,
\* any other % stays. (A hex digit is no %, so the escapes are exactly the
\* places where EscapeAt holds.)
PercentDecode(s) ==
  IF \A i \in 1..Len(s) : s[i] # CP.pct THEN s ELSE
  Flatten([i \in 1..Len(s) |->
             IF EscapeAt(s, i) THEN <<16 * HexValue(s[i + 1]) + HexValue(s[i + 2])>>
             ELSE IF (i > 1 /\ EscapeAt(s, i - 1)) \/ (i > 2 /\ EscapeAt(s, i - 2)) THEN <<>>
             ELSE <<s[i]>>])

IsContinuation(b) == b \in 128..191

\* A two-byte sequence starts at i.
TwoBytesAt(bs, i) ==
  /\ bs[i] \in 194..223
  /\ i + 1 <= Len(bs)
  /\ IsContinuation(bs[i + 1])

\* UTF-8 decoding with replacement: one- and two-byte sequences, and U+FFFD for
\* a byte that starts no valid sequence.
UTF8Decode(bs) ==
  IF \A i \in 1..Len(bs) : bs[i] < 128 THEN bs ELSE
  Flatten([i \in 1..Len(bs) |->
             IF bs[i] < 128 THEN <<bs[i]>>
             ELSE IF TwoBytesAt(bs, i) THEN <<(bs[i] - 192) * 64 + (bs[i + 1] - 128)>>
             ELSE IF i > 1 /\ TwoBytesAt(bs, i - 1) THEN <<>>
             ELSE <<CP.replacement>>])

\* The decoder above is exact unless a three- or four-byte lead is followed by a
\* continuation byte.
UTF8Modelled(bs) ==
  \A i \in 1..(Len(bs) - 1) : ~(bs[i] \in 224..244 /\ IsContinuation(bs[i + 1]))

\* TextEncoder.encode: UTF-8 bytes of a string.
UTF8Encode(s) ==
  IF \A i \in 1..Len(s) : s[i] < 128 THEN s ELSE
  Flatten([i \in 1..Len(s) |->
             IF s[i] < 128 THEN <<s[i]>>
             ELSE IF s[i] < 2048 THEN <<192 + (s[i] \div 64), 128 + (s[i] % 64)>>
             ELSE <<224 + (s[i] \div 4096), 128 + ((s[i] \div 64) % 64), 128 + (s[i] % 64)>>])

PlusToSpace(s) == [i \in 1..Len(s) |-> IF s[i] = CP.plus THEN CP.sp ELSE s[i]]

\* One name or value of the query string, decoded.
DecodeComponent(s) == UTF8Decode(PercentDecode(PlusToSpace(s)))

\* One "&"-separated piece as a <<name, value>> pair: split at the first "=".
ParsePair(piece) ==
  LET i == IndexOf(piece, CP.eq)
  IN  IF i = 0 THEN <<DecodeComponent(piece), <<>>>>
      ELSE <<DecodeComponent(SubSeq(piece, 1, i - 1)), DecodeComponent(From(piece, i + 1))>>

RECURSIVE ParsePieces(_)
ParsePieces(pieces) ==
  IF pieces = <<>> THEN <<>>
  ELSE (IF pieces[1] = <<>> THEN <<>> ELSE <<ParsePair(pieces[1])>>)
       \o ParsePieces(Tail(pieces))

\* new URLSearchParams(init) for a string: the list of <<name, value>> pairs, in
\* order; a leading "?" is dropped and empty pieces are skipped.
URLSearchParams(init) ==
  LET s == IF init # <<>> /\ init[1] = CP.qmark THEN Tail(init) ELSE init
  IN  ParsePieces(SplitOn(s, CP.amp))

\* params.get(name): the value of the first pair of that name; found is FALSE
\* for null.
ParamsGet(params, name) ==
  IF \E i \in 1..Len(params) : params[i][1] = name
  THEN [found |-> TRUE,
        value |-> params[CHOOSE i \in 1..Len(params) :
                           params[i][1] = name /\ \A j \in 1..(i - 1) : params[j][1] # name][2]]
  ELSE [found |-> FALSE, value |-> <<>>]

\* ------------------------------------------------------------------------
\* The plain object `data` of the verifier: own properties in insertion order
\* ------------------------------------------------------------------------

\* data[k] = v on an object created by {}. Assigning to "__proto__" runs the
\* setter inherited from Object.prototype, which ignores a string: no own
\* property is created.
ObjectSet(data, k, v) ==
  IF k = ProtoName THEN data
  ELSE IF \E i \in 1..Len(data) : data[i][1] = k
       THEN [i \in 1..Len(data) |-> IF data[i][1] = k THEN <<k, v>> ELSE data[i]]
  ELSE Append(data, <<k, v>>)

\* data.k: defined is FALSE for undefined.
ObjectGet(data, k) ==
  IF \E i \in 1..Len(data) : data[i][1] = k
  THEN [defined |-> TRUE, value |-> data[CHOOSE i \in 1..Len(data) : data[i][1] = k][2]]
  ELSE [defined |-> FALSE, value |-> <<>>]

\* Object.keys(data), here in insertion order; the verifier sorts the keys
\* before any use, so the place of array-index keys does not show.
ObjectKeys(data) == [i \in 1..Len(data) |-> data[i][1]]

\* for (const [k, v] of params.entries()) data[k] = v;
RECURSIVE CollectData(_, _)
CollectData(params, data) ==
  IF params = <<>> THEN data
  ELSE CollectData(Tail(params), ObjectSet(data, params[1][1], params[1][2]))

RECURSIVE InsertKey(_, _)
InsertKey(sorted, k) ==
  IF sorted = <<>> THEN <<k>>
  ELSE IF StrLess(k, sorted[1]) THEN <<k>> \o sorted
  ELSE <<sorted[1]>> \o InsertKey(Tail(sorted), k)

\* A variant of SortKeys: the keys are left in insertion order.
SortKeys_Unsorted(keys) == keys

\* keys.sort()
RECURSIVE SortKeys(_)
SortKeys(keys) ==
  IF keys = <<>> THEN <<>>
  ELSE InsertKey(SortKeys(SubSeq(keys, 1, Len(keys) - 1)), keys[Len(keys)])

\* checkArr: `${key}=${data[key]}` for every sorted key but "hash".
RECURSIVE CheckLines(_, _)
CheckLines(data, keys) ==
  IF keys = <<>> THEN <<>>
  ELSE (IF keys[1] = HashName THEN <<>>
        ELSE <<keys[1] \o <<CP.eq>> \o ObjectGet(data, keys[1]).value>>)
       \o CheckLines(data, Tail(keys))

\* The mapping the verifier builds from the raw launch data.
VerifierData(initDataRaw) == CollectData(URLSearchParams(initDataRaw), <<>>)

\* checkString = checkArr.join("\n")
CheckString(data) == Join(CheckLines(data, SortKeys(ObjectKeys(data))), <<CP.nl>>)

\* ------------------------------------------------------------------------
\* JSON.parse, for the values the identity extractor reads
\* ------------------------------------------------------------------------
\* Modelled: whitespace, null, true, false, non-negative integers, strings
\* without escapes, objects. A text that uses anything else of JSON (arrays,
\* escapes, signs, fractions, exponents, integers of more than 15 digits) is
\* reported as unsupported, never as an error or a value.
\*
\* A parse result: ok (a value was read), unsupported, next (position after the
\* value), kind, txt (String(value)), and for an object whether it has an own
\* "id" and String(value.id).

JFail == [ok |-> FALSE, unsupported |-> FALSE, next |-> 0, kind |-> "error",
          txt |-> <<>>, hasId |-> FALSE, idTxt |-> <<>>]

JUnsupported == [JFail EXCEPT !.unsupported = TRUE]

JValue(next, kind, txt) ==
  [ok |-> TRUE, unsupported |-> FALSE, next |-> next, kind |-> kind,
   txt |-> txt, hasId |-> FALSE, idTxt |-> <<>>]

IsJsonSpace(c) == c \in {CP.sp, CP.tab, CP.nl, CP.cr}

IsDigit(c) == c \in CP.zero..CP.nine

\* First position >= i that holds no whitespace (Len(s) + 1 at the end).
RECURSIVE SkipSpace(_, _)
SkipSpace(s, i) ==
  IF i <= Len(s) /\ IsJsonSpace(s[i]) THEN SkipSpace(s, i + 1) ELSE i

\* First position >= i that holds no digit.
RECURSIVE SkipDigits(_, _)
SkipDigits(s, i) ==
  IF i <= Len(s) /\ IsDigit(s[i]) THEN SkipDigits(s, i + 1) ELSE i

StartsWith(s, i, word) ==
  /\ i + Len(word) - 1 <= Len(s)
  /\ SubSeq(s, i, i + Len(word) - 1) = word

\* A string whose opening quote is at i; j scans its characters.
RECURSIVE ScanString(_, _, _)
ScanString(s, i, j) ==
  IF j > Len(s) THEN JFail
  ELSE IF s[j] = CP.quote THEN JValue(j + 1, "string", SubSeq(s, i + 1, j - 1))
  ELSE IF s[j] = CP.backslash THEN JUnsupported
  ELSE IF s[j] < CP.sp THEN JFail
  ELSE ScanString(s, i, j + 1)

\* A number whose first digit is at i.
ScanNumber(s, i) ==
  LET j == IF s[i] = CP.zero THEN i + 1 ELSE SkipDigits(s, i)
  IN  IF j <= Len(s) /\ s[j] \in {CP.dot, CP.lowE, CP.upE} THEN JUnsupported
      ELSE IF j - i > 15 THEN JUnsupported
      ELSE JValue(j, "number", SubSeq(s, i, j - 1))

\* c can follow the "[" of an array: the first character of a value, or "]".
CanStartElement(c) ==
  \/ IsDigit(c)
  \/ c \in {CP.lbrace, CP.lbracket, CP.quote, CP.minus, CP.rbracket,
            TxtTrue[1], TxtFalse[1], TxtNull[1]}

RECURSIVE ParseValue(_, _)
RECURSIVE ParseMembers(_, _, _, _)

\* The value that starts at the first non-space position >= i.
ParseValue(s, i) ==
  LET j == SkipSpace(s, i)
  IN  IF j > Len(s) THEN JFail
      ELSE IF s[j] = CP.lbrace
           THEN LET k == SkipSpace(s, j + 1)
                IN  IF k <= Len(s) /\ s[k] = CP.rbrace
                    THEN JValue(k + 1, "object", TxtObject)
                    ELSE ParseMembers(s, k, FALSE, <<>>)
      ELSE IF s[j] = CP.quote THEN ScanString(s, j, j + 1)
      ELSE IF IsDigit(s[j]) THEN ScanNumber(s, j)
      ELSE IF s[j] = CP.minus THEN JUnsupported
      ELSE IF s[j] = CP.lbracket
           THEN LET k == SkipSpace(s, j + 1)
                IN  IF k <= Len(s) /\ CanStartElement(s[k]) THEN JUnsupported ELSE JFail
      ELSE IF StartsWith(s, j, TxtNull) THEN JValue(j + 4, "null", TxtNull)
      ELSE IF StartsWith(s, j, TxtTrue) THEN JValue(j + 4, "boolean", TxtTrue)
      ELSE IF StartsWith(s, j, TxtFalse) THEN JValue(j + 5, "boolean", TxtFalse)
      ELSE JFail

\* The members of an object from the key expected at i; hasId and idTxt are
\* those of the members read so far (a later "id" replaces an earlier one).
ParseMembers(s, i, hasId, idTxt) ==
  IF i > Len(s) \/ s[i] # CP.quote THEN JFail
  ELSE LET key == ScanString(s, i, i + 1)
       IN  IF ~key.ok THEN key
           ELSE LET c == SkipSpace(s, key.next)
                IN  IF c > Len(s) \/ s[c] # CP.colon THEN JFail
                    ELSE LET v == ParseValue(s, c + 1)
                         IN  IF ~v.ok THEN v
                             ELSE LET e == SkipSpace(s, v.next)
                                      has == hasId \/ key.txt = IdName
                                      id == IF key.txt = IdName THEN v.txt ELSE idTxt
                                  IN  IF e > Len(s) THEN JFail
                                      ELSE IF s[e] = CP.comma
                                           THEN ParseMembers(s, SkipSpace(s, e + 1), has, id)
                                      ELSE IF s[e] = CP.rbrace
                                           THEN [JValue(e + 1, "object", TxtObject)
                                                   EXCEPT !.hasId = has, !.idTxt = id]
                                      ELSE JFail

\* JSON.parse(text): a value followed by nothing but whitespace; ok is FALSE
\* for a SyntaxError.
JSONParse(text) ==
  LET v == ParseValue(text, 1)
  IN  IF ~v.ok THEN v
      ELSE IF SkipSpace(text, v.next) <= Len(text) THEN JFail
      ELSE v

\* ------------------------------------------------------------------------
\* src/lib/verifyTelegram.js
\* ------------------------------------------------------------------------

VARIABLES
  subtle       \* globalThis.crypto?.subtle is there (Web Crypto available)

HexDigits == <<48, 49, 50, 51, 52, 53, 54, 55, 56, 57, 97, 98, 99, 100, 101, 102>>

\* bytes[i].toString(16).padStart(2, "0"): lowercase, two digits.
ByteHex(b) == <<HexDigits[(b \div 16) + 1], HexDigits[(b % 16) + 1]>>

\* toHex(buffer): the digits of every byte, in order.
toHex(bytes) == Flatten([i \in 1..Len(bytes) |-> ByteHex(bytes[i])])

\* The tag of subtle.sign("HMAC", key, data). HMAC-SHA-256 is taken as an
\* ideal keyed hash: different (key, data) give different tags, and no tag is
\* the beginning of another. The tag is the two arguments, each behind its
\* length.
HmacTag(keyBytes, dataBytes) ==
  <<Len(keyBytes)>> \o keyBytes \o <<Len(dataBytes)>> \o dataBytes

\* hmacSHA256(keyBytes, dataBytes): threw is TRUE for "Web Crypto unavailable".
hmacSHA256(keyBytes, dataBytes) ==
  IF ~subtle THEN [threw |-> TRUE, bytes |-> <<>>]
  ELSE [threw |-> FALSE, bytes |-> HmacTag(keyBytes, dataBytes)]

Returned(b) == [threw |-> FALSE, value |-> b]
Thrown == [threw |-> TRUE, value |-> FALSE]

\* A variant of verifyTelegramInitData: the guards on the arguments and on the
\* hash field come after the HMAC computation.
verifyTelegramInitData_GuardsLast(initDataRaw, botToken) ==
  LET data == VerifierData(initDataRaw)
      receivedHash == ObjectGet(data, HashName)
      step1 == hmacSHA256(UTF8Encode(WebAppData), UTF8Encode(botToken))
      step2 == hmacSHA256(step1.bytes, UTF8Encode(CheckString(data)))
  IN  IF step1.threw \/ step2.threw THEN Thrown
      ELSE IF initDataRaw = <<>> \/ botToken = <<>> THEN Returned(FALSE)
      ELSE IF ~receivedHash.defined \/ receivedHash.value = <<>> THEN Returned(FALSE)
      ELSE Returned(toHex(step2.bytes) = receivedHash.value)

\* await verifyTelegramInitData(initDataRaw, botToken): what the promise
\* settles to, a returned boolean or a thrown error.
verifyTelegramInitData(initDataRaw, botToken) ==
  IF initDataRaw = <<>> \/ botToken = <<>> THEN Returned(FALSE)
  ELSE LET data == VerifierData(initDataRaw)
           receivedHash == ObjectGet(data, HashName)
       IN  IF ~receivedHash.defined \/ receivedHash.value = <<>> THEN Returned(FALSE)
           ELSE LET checkString == CheckString(data)
                    step1 == hmacSHA256(UTF8Encode(WebAppData), UTF8Encode(botToken))
                IN  IF step1.threw THEN Thrown
                    ELSE LET step2 == hmacSHA256(step1.bytes, UTF8Encode(checkString))
                         IN  IF step2.threw THEN Thrown
                             ELSE Returned(toHex(step2.bytes) = receivedHash.value)

\* An outcome of extractUserId: null, a string, or (never, with the try) a throw.
IdNull == [threw |-> FALSE, isNull |-> TRUE, value |-> <<>>]
IdString(s) == [threw |-> FALSE, isNull |-> FALSE, value |-> s]
IdThrown == [threw |-> TRUE, isNull |-> FALSE, value |-> <<>>]

\* const user = JSON.parse(userJson); return String(user.id);
UserIdOfJson(userJson) ==
  LET user == JSONParse(userJson)
  IN  IF ~user.ok THEN IdThrown                 \* SyntaxError
      ELSE IF user.kind = "null" THEN IdThrown  \* TypeError: null.id
      ELSE IF user.kind = "object" /\ user.hasId THEN IdString(user.idTxt)
      ELSE IdString(TxtUndefined)               \* String(undefined)

\* The body of the try block of extractUserId.
ExtractUserIdTry(initDataRaw) ==
  LET params == URLSearchParams(initDataRaw)
      userJson == ParamsGet(params, UserName)
  IN  IF ~userJson.found \/ userJson.value = <<>> THEN IdNull
      ELSE UserIdOfJson(userJson.value)

\* A variant of extractUserId: no try/catch around the body.
extractUserId_NoCatch(initDataRaw) == ExtractUserIdTry(initDataRaw)

\* extractUserId(initDataRaw): catch { return null; }
extractUserId(initDataRaw) ==
  LET r == ExtractUserIdTry(initDataRaw)
  IN  IF r.threw THEN IdNull ELSE r

\* The JSON text extractUserId parses is in the modelled part of JSON.
ExtractModelled(initDataRaw) ==
  LET userJson == ParamsGet(URLSearchParams(initDataRaw), UserName)
  IN  userJson.found => ~JSONParse(userJson.value).unsupported

\* ------------------------------------------------------------------------
\* State
\* ------------------------------------------------------------------------

VARIABLES
  botToken,    \* process.env.TELEGRAM_BOT_TOKEN || ""
  issued,      \* the launch data as the host issued it
  signed,      \* issued carries the tag of its own fields under botToken
  initData,    \* the launch data as presented to the verifier and the handler
  tamper,      \* what was done to issued on the way: "none", "flip", "shuffle"
  vpc,         \* direct calls: "fresh", "verified", "extracted"
  verified,    \* outcome of verifyTelegramInitData(initData, botToken)
  extracted,   \* outcome of extractUserId(initData)
  pc,          \* tip handler: "idle", "awaitTip", "done", "exited"
  method,      \* req.method
  hasInitData, \* req.body carries initData
  ok,          \* the promise held by `ok`: "none", "pending", "fulfilled", "rejected"
  okValue,     \* what the promise was fulfilled with
  status,      \* status of the response sent, 0 while none is sent
  tipCalled,   \* generateTip was invoked
  extractCalled, \* extractUserId was invoked by the handler
  userId,      \* the userId of the handler
  level,       \* req.body.level
  errors,      \* req.body.errors
  tipArgs,     \* the argument of generateTip
  resBody,     \* ssePost: the bytes of res.body, as the server sent them
  cuts,        \* ssePost: the offsets of resBody at which a chunk ends
  offset,      \* ssePost: how many bytes of resBody the reader has delivered
  pending,     \* ssePost: bytes the TextDecoder holds back (an unfinished character)
  buffer,      \* ssePost: `buffer`
  forwarded,   \* ssePost: the frames the loop over `lines` has visited
  payloads,    \* ssePost: the payloads cut out of those frames
  yielded,     \* ssePost: the deltas yielded
  gen,         \* ssePost: "reading", "returned" (sentinel), "closed" (reader done)
  messages,    \* HomePage: the `messages` state, a sequence of [role, content]
  sending,     \* HomePage: `sending`
  evaluating,  \* HomePage: `evaluating`
  turns        \* HomePage: the calls of handleSend, one record each

vars ==
  <<subtle, botToken, issued, signed, initData, tamper, vpc, verified, extracted,
    pc, method, hasInitData, ok, okValue, status, tipCalled, extractCalled, userId,
    level, errors, tipArgs,
    resBody, cuts, offset, pending, buffer, forwarded, payloads, yielded, gen,
    messages, sending, evaluating, turns>>

decodeVars == <<resBody, cuts, offset, pending, buffer, forwarded, payloads, yielded, gen>>
chatVars == <<messages, sending, evaluating, turns>>

launchVars == <<subtle, botToken, issued, signed, initData, tamper>>
callVars == <<vpc, verified, extracted>>
handlerVars ==
  <<pc, method, hasInitData, ok, okValue, status, tipCalled, extractCalled, userId,
    level, errors, tipArgs>>

\* ------------------------------------------------------------------------
\* The host: launch data drawn from a bounded set
\* ------------------------------------------------------------------------

\* Most fields in one launch data string, the hash field not counted.
MaxFields == 2

\* The key=value pieces a launch data string is made of, as they appear in the
\* raw string:
\*   a=1   a=1=2   b=+   __proto__=1
\*   user=%7B%22id%22%3A7%7D   user={"id":8}   user=%7B%7D   user=null
\*   user=7   user=%22s%22   user=%7B%22id%22%3A
RawPairs ==
  { <<97, 61, 49>>,
    <<97, 61, 49, 61, 50>>,
    <<98, 61, 43>>,
    <<95, 95, 112, 114, 111, 116, 111, 95, 95, 61, 49>>,
    <<117, 115, 101, 114, 61, 37, 55, 66, 37, 50, 50, 105, 100, 37, 50, 50, 37, 51, 65, 55, 37, 55, 68>>,
    <<117, 115, 101, 114, 61, 123, 34, 105, 100, 34, 58, 56, 125>>,
    <<117, 115, 101, 114, 61, 37, 55, 66, 37, 55, 68>>,
    <<117, 115, 101, 114, 61, 110, 117, 108, 108>>,
    <<117, 115, 101, 114, 61, 55>>,
    <<117, 115, 101, 114, 61, 37, 50, 50, 115, 37, 50, 50>>,
    <<117, 115, 101, 114, 61, 37, 55, 66, 37, 50, 50, 105, 100, 37, 50, 50, 37, 51, 65>> }

\* Sequences of at most n pieces.
RECURSIVE PieceLists(_)
PieceLists(n) ==
  IF n = 0 THEN {<<>>}
  ELSE LET shorter == PieceLists(n - 1)
       IN  shorter \cup {Append(l, p) : l \in shorter, p \in RawPairs}

\* The server's secret: "" (not configured) or "S"; "T" is another secret.
Tokens == {<<>>, <<83>>}
OtherToken == <<84>>

\* How the host fills the hash field.
HashKinds == {"valid", "other", "empty", "none"}

\* Characters a single-character change may put into the raw string:
\* space, "&", "A", "b".
FlipChars == {CP.sp, CP.amp, CP.upA, 98}

\* What the host signs (the design of the launch data: every field but
\* hash, the last occurrence of a name, sorted by name, one key=value line
\* each).
FieldNames(params) == {params[i][1] : i \in 1..Len(params)}

LastValue(params, name) ==
  params[CHOOSE i \in 1..Len(params) :
           params[i][1] = name /\ \A j \in (i + 1)..Len(params) : params[j][1] # name][2]

RECURSIVE Ascending(_)
Ascending(names) ==
  IF names = {} THEN <<>>
  ELSE LET least == CHOOSE x \in names : \A y \in names \ {x} : StrLess(x, y)
       IN  <<least>> \o Ascending(names \ {least})

SignedLines(params) ==
  LET names == Ascending(FieldNames(params) \ {HashName})
  IN  [i \in 1..Len(names) |-> names[i] \o <<CP.eq>> \o LastValue(params, names[i])]

SignedString(raw) == Join(SignedLines(URLSearchParams(raw)), <<CP.nl>>)

\* Lowercase hex of HMAC(key = HMAC(key = "WebAppData", message = secret),
\* message = text).
TagOf(text, secret) ==
  toHex(HmacTag(HmacTag(UTF8Encode(WebAppData), UTF8Encode(secret)), UTF8Encode(text)))

\* The launch data string of the pieces, with the hash field the host adds.
Issue(pieces, kind, secret) ==
  LET body == Join(pieces, <<CP.amp>>)
      tag == IF kind = "valid" THEN TagOf(SignedString(body), secret)
             ELSE IF kind = "other" THEN TagOf(SignedString(body), OtherToken)
             ELSE <<>>
  IN  IF kind = "none" THEN body
      ELSE (IF body = <<>> THEN <<>> ELSE body \o <<CP.amp>>)
           \o HashName \o <<CP.eq>> \o tag

\* ------------------------------------------------------------------------
\* src/pages/api/tip.js: the level and the errors of a request
\* ------------------------------------------------------------------------

\* A member of req.body as the body parser left it: kind, num (a number),
\* txt (a string, as UTF-16 code units), items (an array). "opaque" is an
\* object whose own toString member is not a function, {"toString": 1}.
BodyValue(kind, num, txt, items) ==
  [kind |-> kind, num |-> num, txt |-> txt, items |-> items]

BodyUndefined == BodyValue("undefined", 0, <<>>, <<>>)
BodyNull == BodyValue("null", 0, <<>>, <<>>)
BodyBool(b) == BodyValue("boolean", IF b THEN 1 ELSE 0, <<>>, <<>>)
BodyNumber(n) == BodyValue("number", n, <<>>, <<>>)
BodyString(txt) == BodyValue("string", 0, txt, <<>>)
BodyArray(items) == BodyValue("array", 0, <<>>, items)
BodyObject == BodyValue("object", 0, <<>>, <<>>)
BodyOpaque == BodyValue("opaque", 0, <<>>, <<>>)

\* String(n) for a natural number.
RECURSIVE NumberText(_)
NumberText(n) ==
  IF n < 10 THEN <<CP.zero + n>>
  ELSE NumberText(n \div 10) \o <<CP.zero + (n % 10)>>

\* String(v): [threw, value]. An array is joined with ",", null and undefined
\* items giving the empty string; ToPrimitive finds no callable toString and
\* no primitive valueOf on an opaque object and throws a TypeError.
RECURSIVE StringOf(_)
StringOfItem(v) ==
  IF v.kind \in {"null", "undefined"} THEN [threw |-> FALSE, value |-> <<>>]
  ELSE StringOf(v)

StringOf(v) ==
  CASE v.kind = "undefined" -> [threw |-> FALSE, value |-> TxtUndefined]
    [] v.kind = "null" -> [threw |-> FALSE, value |-> TxtNull]
    [] v.kind = "boolean" ->
         [threw |-> FALSE, value |-> IF v.num = 1 THEN TxtTrue ELSE TxtFalse]
    [] v.kind = "number" -> [threw |-> FALSE, value |-> NumberText(v.num)]
    [] v.kind = "string" -> [threw |-> FALSE, value |-> v.txt]
    [] v.kind = "array" ->
         LET parts == [i \in 1..Len(v.items) |-> StringOfItem(v.items[i])]
         IN  IF \E i \in 1..Len(parts) : parts[i].threw
             THEN [threw |-> TRUE, value |-> <<>>]
             ELSE [threw |-> FALSE,
                   value |-> Join([i \in 1..Len(parts) |-> parts[i].value],
                                  <<CP.comma>>)]
    [] v.kind = "object" -> [threw |-> FALSE, value |-> TxtObject]
    [] OTHER -> [threw |-> TRUE, value |-> <<>>]

\* !v
Falsy(v) ==
  \/ v.kind \in {"undefined", "null"}
  \/ v.kind = "boolean" /\ v.num = 0
  \/ v.kind = "number" /\ v.num = 0
  \/ v.kind = "string" /\ v.txt = <<>>

\* String.prototype.toLowerCase on the letters the inputs use: A-Z, and
\* U+0130 which becomes i followed by U+0307.
toLowerCase(txt) ==
  Flatten([i \in 1..Len(txt) |->
             IF txt[i] \in 65..90 THEN <<txt[i] + 32>>
             ELSE IF txt[i] = 304 THEN <<105, 775>>
             ELSE <<txt[i]>>])

\* "beginner", "intermediate", "advanced"
TxtBeginner == <<98, 101, 103, 105, 110, 110, 101, 114>>
TxtIntermediate == <<105, 110, 116, 101, 114, 109, 101, 100, 105, 97, 116, 101>>
TxtAdvanced == <<97, 100, 118, 97, 110, 99, 101, 100>>

allowed == {TxtBeginner, TxtIntermediate, TxtAdvanced}

\* errors.slice(0, 20) and String(s).slice(0, 200)
ErrorsLimit == 20
EntryLimit == 200

\* seq.slice(0, n)
SliceFirst(seq, n) == SubSeq(seq, 1, IF Len(seq) < n THEN Len(seq) ELSE n)

\* finalLevel: [threw, value]
finalLevel(lv) ==
  LET text == StringOf(IF Falsy(lv) THEN BodyString(TxtBeginner) ELSE lv)
      normLevel == toLowerCase(text.value)
  IN  IF text.threw THEN text
      ELSE [threw |-> FALSE,
            value |-> IF normLevel \in allowed THEN normLevel ELSE TxtBeginner]

\* A variant of errs that keeps every entry of the array.
errs_NoSlice(es) ==
  IF es.kind # "array" THEN [threw |-> FALSE, value |-> <<>>]
  ELSE LET kept == es.items
           texts == [i \in 1..Len(kept) |-> StringOf(kept[i])]
       IN  IF \E i \in 1..Len(texts) : texts[i].threw
           THEN [threw |-> TRUE, value |-> <<>>]
           ELSE [threw |-> FALSE,
                 value |-> [i \in 1..Len(texts) |->
                              SliceFirst(texts[i].value, EntryLimit)]]

\* errs: [threw, value]
errs(es) ==
  IF es.kind # "array" THEN [threw |-> FALSE, value |-> <<>>]
  ELSE LET kept == SliceFirst(es.items, ErrorsLimit)
           texts == [i \in 1..Len(kept) |-> StringOf(kept[i])]
       IN  IF \E i \in 1..Len(texts) : texts[i].threw
           THEN [threw |-> TRUE, value |-> <<>>]
           ELSE [threw |-> FALSE,
                 value |-> [i \in 1..Len(texts) |->
                              SliceFirst(texts[i].value, EntryLimit)]]

\* generateTip was not called.
NoTipArgs == [level |-> <<>>, errors |-> <<>>]

\* ------------------------------------------------------------------------
\* Init
\* ------------------------------------------------------------------------

NoVerdict == [threw |-> FALSE, value |-> FALSE]

\* No response body is being read.
NoStream ==
  /\ resBody = <<>> /\ cuts = {} /\ offset = 0 /\ pending = <<>> /\ buffer = <<>>
  /\ forwarded = <<>> /\ payloads = <<>> /\ yielded = <<>> /\ gen = "closed"

\* The page is not mounted.
NoPage ==
  /\ messages = <<>> /\ sending = FALSE /\ evaluating = FALSE /\ turns = <<>>

TxtUnknown == <<117, 110, 107, 110, 111, 119, 110>>

Init ==
  /\ subtle \in BOOLEAN
  /\ botToken \in Tokens
  /\ \E pieces \in PieceLists(MaxFields), kind \in HashKinds :
       /\ issued = Issue(pieces, kind, botToken)
       /\ signed = (kind = "valid")
  /\ initData = issued
  /\ tamper = "none"
  /\ vpc = "fresh"
  /\ verified = NoVerdict
  /\ extracted = IdNull
  /\ pc = "idle"
  /\ method = "none"
  /\ hasInitData = FALSE
  /\ ok = "none"
  /\ okValue = FALSE
  /\ status = 0
  /\ tipCalled = FALSE
  /\ extractCalled = FALSE
  /\ userId = <<>>
  /\ level = BodyUndefined
  /\ errors = BodyUndefined
  /\ tipArgs = NoTipArgs
  /\ NoStream
  /\ NoPage

\* ------------------------------------------------------------------------
\* Direct calls of the verifier and the extractor on launch data that was
\* changed on the way
\* ------------------------------------------------------------------------

\* One character of validly signed launch data is replaced.
Flip(p, c) ==
  /\ vpc = "fresh" /\ tamper = "none"
  /\ signed /\ subtle /\ botToken # <<>>
  /\ initData[p] # c
  /\ initData' = [initData EXCEPT ![p] = c]
  /\ tamper' = "flip"
  /\ UNCHANGED <<subtle, botToken, issued, signed>>
  /\ UNCHANGED callVars
  /\ UNCHANGED handlerVars
  /\ UNCHANGED decodeVars
  /\ UNCHANGED chatVars

\* The key=value pieces of validly signed launch data are put in another order.
Shuffle(perm) ==
  LET pieces == SplitOn(initData, CP.amp)
      moved == Join([i \in 1..Len(pieces) |-> pieces[perm[i]]], <<CP.amp>>)
  IN  /\ vpc = "fresh" /\ tamper = "none"
      /\ signed /\ subtle /\ botToken # <<>>
      /\ moved # initData
      /\ initData' = moved
      /\ tamper' = "shuffle"
      /\ UNCHANGED <<subtle, botToken, issued, signed>>
      /\ UNCHANGED callVars
      /\ UNCHANGED handlerVars
      /\ UNCHANGED decodeVars
      /\ UNCHANGED chatVars

Verify ==
  /\ vpc = "fresh"
  /\ verified' = verifyTelegramInitData(initData, botToken)
  /\ vpc' = "verified"
  /\ UNCHANGED extracted
  /\ UNCHANGED launchVars
  /\ UNCHANGED handlerVars
  /\ UNCHANGED decodeVars
  /\ UNCHANGED chatVars

Extract ==
  /\ vpc = "verified"
  /\ extracted' = extractUserId(initData)
  /\ vpc' = "extracted"
  /\ UNCHANGED verified
  /\ UNCHANGED launchVars
  /\ UNCHANGED handlerVars
  /\ UNCHANGED decodeVars
  /\ UNCHANGED chatVars

NextCalls ==
  \/ \E perm \in Permutations(1..Len(SplitOn(initData, CP.amp))) : Shuffle(perm)
  \/ Verify
  \/ Extract

\* The verifier and the extractor called on launch data as issued or reordered.
SpecCalls == Init /\ [][NextCalls]_vars

NextFlip ==
  \/ \E p \in 1..Len(initData), c \in FlipChars : Flip(p, c)
  \/ Verify
  \/ Extract

\* The verifier and the extractor called on launch data as issued or with one
\* character replaced.
SpecFlip == Init /\ [][NextFlip]_vars

\* ------------------------------------------------------------------------
\* src/pages/api/tip.js
\* ------------------------------------------------------------------------

Methods == {"POST", "GET"}

\* The value of `ok`: verifyTelegramInitData is an async function and the
\* handler does not await it, so the call yields a promise.
CallVerify == [isPromise |-> TRUE, value |-> FALSE]

\* !v is false for every object, a promise included.
Truthy(v) == v.isPromise \/ v.value

\* extractUserId(initData) || "unknown"
UserIdOrUnknown(r) == IF r.isNull \/ r.value = <<>> THEN TxtUnknown ELSE r.value

\* handler(req, res) from its entry to the first await or to the response.
handler(m, has) ==
  /\ pc = "idle"
  /\ method' = m
  /\ hasInitData' = has
  /\ IF m # "POST"
     THEN /\ status' = 405 /\ pc' = "done"
          /\ UNCHANGED <<ok, okValue, tipCalled, extractCalled, userId, tipArgs>>
     ELSE IF ~has \/ initData = <<>>
     THEN /\ status' = 400 /\ pc' = "done"
          /\ UNCHANGED <<ok, okValue, tipCalled, extractCalled, userId, tipArgs>>
     ELSE IF ~Truthy(CallVerify)
     THEN /\ status' = 401 /\ pc' = "done"
          /\ ok' = "pending"
          /\ UNCHANGED <<okValue, tipCalled, extractCalled, userId, tipArgs>>
     ELSE /\ ok' = "pending"
          /\ extractCalled' = TRUE
          /\ userId' = UserIdOrUnknown(extractUserId(initData))
          /\ IF finalLevel(level).threw \/ errs(errors).threw
             THEN /\ status' = 500 /\ pc' = "done"
                  /\ UNCHANGED <<okValue, tipCalled, tipArgs>>
             ELSE /\ tipCalled' = TRUE
                  /\ tipArgs' = [level |-> finalLevel(level).value,
                                 errors |-> errs(errors).value]
                  /\ pc' = "awaitTip"
                  /\ UNCHANGED <<okValue, status>>
  /\ UNCHANGED <<level, errors>>
  /\ UNCHANGED launchVars
  /\ UNCHANGED callVars
  /\ UNCHANGED decodeVars
  /\ UNCHANGED chatVars

\* The promise of verifyTelegramInitData settles; nothing awaits it.
VerifySettles ==
  /\ ok = "pending"
  /\ LET outcome == verifyTelegramInitData(initData, botToken)
     IN  /\ ok' = IF outcome.threw THEN "rejected" ELSE "fulfilled"
         /\ okValue' = outcome.value
  /\ UNCHANGED <<pc, method, hasInitData, status, tipCalled, extractCalled, userId>>
  /\ UNCHANGED <<level, errors, tipArgs>>
  /\ UNCHANGED launchVars
  /\ UNCHANGED callVars
  /\ UNCHANGED decodeVars
  /\ UNCHANGED chatVars

\* await generateTip(...) returns: res.status(200).json({ ok: true, advice, userId })
TipReturns ==
  /\ pc = "awaitTip"
  /\ status' = 200
  /\ pc' = "done"
  /\ UNCHANGED <<method, hasInitData, ok, okValue, tipCalled, extractCalled, userId>>
  /\ UNCHANGED <<level, errors, tipArgs>>
  /\ UNCHANGED launchVars
  /\ UNCHANGED callVars
  /\ UNCHANGED decodeVars
  /\ UNCHANGED chatVars

\* await generateTip(...) throws: catch (e) { res.status(500) ... }
TipThrows ==
  /\ pc = "awaitTip"
  /\ status' = 500
  /\ pc' = "done"
  /\ UNCHANGED <<method, hasInitData, ok, okValue, tipCalled, extractCalled, userId>>
  /\ UNCHANGED <<level, errors, tipArgs>>
  /\ UNCHANGED launchVars
  /\ UNCHANGED callVars
  /\ UNCHANGED decodeVars
  /\ UNCHANGED chatVars

\* The rejection of the promise is handled by nobody: a Node.js process
\* without an unhandledRejection listener ends on it, and the pending request
\* gets no response.
ProcessExits ==
  /\ ok = "rejected"
  /\ pc = "awaitTip"
  /\ pc' = "exited"
  /\ UNCHANGED <<method, hasInitData, ok, okValue, status, tipCalled, extractCalled, userId>>
  /\ UNCHANGED <<level, errors, tipArgs>>
  /\ UNCHANGED launchVars
  /\ UNCHANGED callVars
  /\ UNCHANGED decodeVars
  /\ UNCHANGED chatVars

Next ==
  \/ \E m \in Methods, has \in BOOLEAN : handler(m, has)
  \/ VerifySettles
  \/ TipReturns
  \/ TipThrows
  \/ ProcessExits

\* One request to the tip handler.
Spec == Init /\ [][Next]_vars

\* ------------------------------------------------------------------------
\* The inputs stay within what the models of JSON.parse and of UTF-8 cover
\* ------------------------------------------------------------------------

InputsModelled ==
  /\ ExtractModelled(initData)
  /\ UTF8Modelled(PercentDecode(PlusToSpace(initData)))

\* ------------------------------------------------------------------------
\* Claims
\* ------------------------------------------------------------------------

\* The request reached the verification step of the handler.
Submitted == pc # "idle" /\ method = "POST" /\ hasInitData /\ initData # <<>>

\* C1: for a POST request with a non-empty initData, generateTip is invoked
\* and 200 is answered only if verifyTelegramInitData(initData, token) is true;
\* when it is false the handler answers 401 and calls neither generateTip nor
\* extractUserId.
C1_TipOnlyWhenVerified ==
  LET outcome == verifyTelegramInitData(initData, botToken)
  IN  Submitted =>
        /\ (tipCalled \/ status = 200) => outcome = Returned(TRUE)
        /\ outcome = Returned(FALSE) => (status = 401 /\ ~tipCalled /\ ~extractCalled)

\* C2: when hmacSHA256 raises (Web Crypto unavailable), the request is never
\* treated as verified: generateTip is not called and 200 is not answered.
C2_FailsClosed ==
  (Submitted /\ verifyTelegramInitData(initData, botToken).threw) =>
    (~tipCalled /\ status # 200)

\* The hash field of raw is the tag of the canonical check-string of raw:
\* every field except hash, sorted by name, key=value lines joined by newlines.
HashMatches(raw, secret) ==
  LET params == URLSearchParams(raw)
  IN  /\ HashName \in FieldNames(params)
      /\ LastValue(params, HashName) = TagOf(SignedString(raw), secret)

\* C3: for every raw and (non-empty) secret, verify(raw, secret) is true if
\* and only if the hash field of raw equals the lowercase hex of
\* HMAC(HMAC("WebAppData", secret), C), C being the canonical check-string of
\* raw: every field except hash, sorted by name.
C3_TrueIffTagMatches ==
  (vpc # "fresh" /\ subtle /\ botToken # <<>>) =>
    ((verified = Returned(TRUE)) <=> HashMatches(initData, botToken))

\* The position at which initData differs from issued after a flip.
FlipPos == CHOOSE p \in 1..Len(issued) : issued[p] # initData[p]

\* Start and end of the "&"-separated piece of raw that holds position p.
PieceStart(raw, p) ==
  IF \E i \in 1..(p - 1) : raw[i] = CP.amp
  THEN 1 + CHOOSE i \in 1..(p - 1) :
             raw[i] = CP.amp /\ \A j \in (i + 1)..(p - 1) : raw[j] # CP.amp
  ELSE 1

PieceEnd(raw, p) ==
  IF \E i \in p..Len(raw) : raw[i] = CP.amp
  THEN (CHOOSE i \in p..Len(raw) : raw[i] = CP.amp /\ \A j \in p..(i - 1) : raw[j] # CP.amp) - 1
  ELSE Len(raw)

\* Position p of raw is a character of the hash value, or of the name or the
\* value of a field other than hash (not a separator, not the name "hash").
InSignedText(raw, p) ==
  /\ raw[p] # CP.amp
  /\ LET from == PieceStart(raw, p)
         piece == SubSeq(raw, from, PieceEnd(raw, p))
         sep == IndexOf(piece, CP.eq)
         at == p - from + 1
     IN  /\ at # sep
         /\ SubSeq(piece, 1, sep - 1) = HashName => at > sep

\* C4: launch data validly signed under a known secret is accepted, and
\* changing any single character of the hash value or of a non-hash field
\* (name or value, in the raw string) makes verify return false.
C4_AnyFlipRejected ==
  (vpc # "fresh" /\ signed /\ subtle /\ botToken # <<>>) =>
    /\ tamper = "none" => verified = Returned(TRUE)
    /\ (tamper = "flip" /\ InSignedText(issued, FlipPos)) => verified = Returned(FALSE)

UniqueNames(raw) ==
  LET params == URLSearchParams(raw)
  IN  \A i, j \in 1..Len(params) : params[i][1] = params[j][1] => i = j

\* C5: with unique field names, the canonical check-string and the result of
\* verify are the same for every order of the key=value pairs of raw.
C5_OrderIndependent ==
  (vpc # "fresh" /\ tamper = "shuffle" /\ UniqueNames(issued)) =>
    /\ CheckString(VerifierData(initData)) = CheckString(VerifierData(issued))
    /\ verified = verifyTelegramInitData(issued, botToken)

\* The verifier accepted launch data whose names are unique and whose fields
\* came in another order than issued.
C5_Witness ==
  /\ vpc # "fresh" /\ tamper = "shuffle" /\ UniqueNames(issued)
  /\ verified = Returned(TRUE)
  /\ ObjectKeys(VerifierData(initData)) # ObjectKeys(VerifierData(issued))
  /\ Len(CheckLines(VerifierData(initData), ObjectKeys(VerifierData(initData)))) >= 2

\* raw has no hash field, or an empty one.
NoHash(raw) ==
  LET params == URLSearchParams(raw)
  IN  HashName \notin FieldNames(params) \/ LastValue(params, HashName) = <<>>

\* C6: verify returns false, and does not raise, when raw is empty, the
\* secret is empty, or raw has no hash field or an empty one.
C6_RejectsWithoutRaising ==
  (vpc # "fresh" /\ (initData = <<>> \/ botToken = <<>> \/ NoHash(initData))) =>
    verified = Returned(FALSE)

\* verify returned false for launch data without a hash although the HMAC
\* primitive, had it been reached, would have raised.
C6_Witness ==
  /\ vpc # "fresh" /\ ~subtle
  /\ initData # <<>> /\ botToken # <<>> /\ NoHash(initData)
  /\ verified = Returned(FALSE)

Occurrences(params, name) ==
  Cardinality({i \in 1..Len(params) : params[i][1] = name})

\* C7: a field name that occurs more than once is kept once in the verifier's
\* mapping, with the value of its last occurrence, and has exactly one line in
\* the canonical check-string, carrying that value.
C7_LastOccurrenceWins ==
  vpc # "fresh" =>
    LET params == URLSearchParams(initData)
        data == VerifierData(initData)
        lines == CheckLines(data, SortKeys(ObjectKeys(data)))
    IN  \A name \in FieldNames(params) \ {HashName} :
          Occurrences(params, name) > 1 =>
            /\ ObjectGet(data, name) = [defined |-> TRUE, value |-> LastValue(params, name)]
            /\ Cardinality({i \in 1..Len(lines) :
                 lines[i] = name \o <<CP.eq>> \o LastValue(params, name)}) = 1
            /\ Cardinality({i \in 1..Len(lines) :
                 SubSeq(lines[i], 1, Len(name) + 1) = name \o <<CP.eq>>}) = 1

\* C8: extractUserId returns null when raw has no user field, when the user
\* value is not valid JSON and when it is JSON without an id, and the id as a
\* string in every other case.
C8_NullUnlessId ==
  LET params == URLSearchParams(initData)
  IN  (vpc = "extracted" /\ Occurrences(params, UserName) <= 1) =>
        IF UserName \notin FieldNames(params) THEN extracted = IdNull
        ELSE LET json == JSONParse(LastValue(params, UserName))
             IN  IF json.ok /\ json.kind = "object" /\ json.hasId
                 THEN extracted = IdString(json.idTxt)
                 ELSE extracted = IdNull

\* C9: extractUserId never raises: it returns a string or null.
C9_NeverRaises == vpc = "extracted" => ~extracted.threw

\* extractUserId returned null where its body raised (JSON null, truncated JSON).
C9_Witness ==
  /\ vpc = "extracted"
  /\ ExtractUserIdTry(initData).threw
  /\ extracted = IdNull

\* C10: the user value extractUserId parses is the user value of the verifier's
\* mapping, the one that is signed: launch data accepted by verify yields the
\* id of the signed user value.
C10_ExtractsSignedUser ==
  (vpc = "extracted" /\ verified = Returned(TRUE)) =>
    LET signedUser == ObjectGet(VerifierData(initData), UserName)
        id == UserIdOfJson(signedUser.value)
    IN  extracted = IF ~signedUser.defined \/ signedUser.value = <<>> THEN IdNull
                    ELSE IF id.threw THEN IdNull
                    ELSE id

\* ------------------------------------------------------------------------
\* src/frontend/pages/index.tsx: the server-sent event stream of the chat
\* ------------------------------------------------------------------------

\* "data: ", "data:", "[DONE]", "delta", "error"
DataMarker == <<100, 97, 116, 97, 58, 32>>
DataColon == <<100, 97, 116, 97, 58>>
DoneSentinel == <<91, 68, 79, 78, 69, 93>>
DeltaName == <<100, 101, 108, 116, 97>>
ErrorName == <<101, 114, 114, 111, 114>>

\* A value read by JSON.parse: its kind and String(value).
JNothing == [kind |-> "undefined", txt |-> TxtUndefined]

\* Boolean(value) for a value read by JSON.parse.
JSTruthy(val) ==
  CASE val.kind = "string" -> val.txt # <<>>
    [] val.kind = "number" -> val.txt # <<CP.zero>>
    [] val.kind = "boolean" -> val.txt = TxtTrue
    [] val.kind = "object" -> TRUE
    [] OTHER -> FALSE

\* obj[name] for the object whose first key is expected at i of s (s is valid
\* JSON); val is the value of the members read so far, a later member of the
\* same name replacing an earlier one.
RECURSIVE MemberFrom(_, _, _, _)

\* The member whose key was read as `key` and whose value was read as v.
MemberRead(s, name, val, key, v) ==
  LET e == SkipSpace(s, v.next)
      now == IF key.txt = name THEN [kind |-> v.kind, txt |-> v.txt] ELSE val
  IN  IF s[e] = CP.comma THEN MemberFrom(s, SkipSpace(s, e + 1), name, now) ELSE now

\* The member whose key was read as `key`.
MemberOfKey(s, name, val, key) ==
  MemberRead(s, name, val, key, ParseValue(s, SkipSpace(s, key.next) + 1))

\* The members from the key at i on.
MemberFrom(s, i, name, val) == MemberOfKey(s, name, val, ScanString(s, i, i + 1))

\* JSON.parse(text)[name]: threw for a SyntaxError, or for a TypeError (the
\* property of null); otherwise the value, undefined included.
\* v[name], v being what JSON.parse(text) gave.
MemberOfParsed(text, name, v) ==
  LET open == SkipSpace(text, 1)
      first == SkipSpace(text, open + 1)
  IN  IF ~v.ok \/ v.kind = "null" THEN [threw |-> TRUE, val |-> JNothing]
      ELSE IF v.kind # "object" \/ text[first] = CP.rbrace
      THEN [threw |-> FALSE, val |-> JNothing]
      ELSE [threw |-> FALSE, val |-> MemberFrom(text, first, name, JNothing)]

\* JSON.parse(text)[name]
JSONMember(text, name) == MemberOfParsed(text, name, JSONParse(text))

\* decoder.decode(value, { stream: true }) of a TextDecoder('utf-8') that holds
\* the bytes held: the lead byte of a two-byte character at the end of the
\* chunk is held back for the next call.
TextDecoderDecode(held, value) ==
  LET bytes == held \o value
      n == Len(bytes)
  IN  IF n > 0 /\ bytes[n] \in 194..223
      THEN [text |-> UTF8Decode(SubSeq(bytes, 1, n - 1)), held |-> <<bytes[n]>>]
      ELSE [text |-> UTF8Decode(bytes), held |-> <<>>]

\* chunk.indexOf('\n\n', start) + 1, positions counted from 1; 0 for -1.
IndexOfBlankLine(chunk, start) ==
  LET hits == {i \in start..(Len(chunk) - 1) : chunk[i] = CP.nl /\ chunk[i + 1] = CP.nl}
  IN  IF hits = {} THEN 0 ELSE CHOOSE i \in hits : \A j \in hits : i <= j

\* buffer.lastIndexOf('\n\n') + 1; 0 for -1.
LastIndexOfBlankLine(chunk) ==
  LET hits == {i \in 1..(Len(chunk) - 1) : chunk[i] = CP.nl /\ chunk[i + 1] = CP.nl}
  IN  IF hits = {} THEN 0 ELSE CHOOSE i \in hits : \A j \in hits : i >= j

\* The loop of parseSSELines from `start`.
RECURSIVE ParseSSEFrom(_, _)
ParseSSEFrom(chunk, start) ==
  LET idx == IndexOfBlankLine(chunk, start)
  IN  IF idx = 0 THEN <<>>
      ELSE <<SubSeq(chunk, start, idx - 1)>> \o ParseSSEFrom(chunk, idx + 2)

\* parseSSELines(chunk): the pieces of chunk that end at a '\n\n'.
parseSSELines(chunk) == ParseSSEFrom(chunk, 1)

\* line.startsWith('data: ')
LineIsData(line) == StartsWith(line, 1, DataMarker)

\* line.slice(6)
LinePayload(line) == From(line, Len(DataMarker) + 1)

\* if (obj.delta) yield obj.delta, m being what reading obj.delta gave.
DeltaOutcome(m) ==
  IF ~m.threw /\ JSTruthy(m.val) THEN [act |-> "yield", dlt |-> m.val.txt]
  ELSE [act |-> "noise", dlt |-> <<>>]

\* A variant of LineOutcome: the sentinel is not looked for, and its payload
\* goes to JSON.parse like any other.
LineOutcome_NoReturn(line) ==
  IF ~LineIsData(line) THEN [act |-> "skip", dlt |-> <<>>]
  ELSE DeltaOutcome(JSONMember(LinePayload(line), DeltaName))

\* What the body of the loop over `lines` does with one line: "skip" (no
\* marker), "return" (the sentinel), "yield" (a truthy obj.delta, dlt being the
\* text it adds to a string) or "noise" (JSON.parse raised, or no truthy delta).
LineOutcome(line) ==
  IF ~LineIsData(line) THEN [act |-> "skip", dlt |-> <<>>]
  ELSE IF LinePayload(line) = DoneSentinel THEN [act |-> "return", dlt |-> <<>>]
  ELSE DeltaOutcome(JSONMember(LinePayload(line), DeltaName))

\* The for loop of ssePost over `lines`, outcomes[k] being what the body does
\* with lines[k]: with the bytes the decoder holds and the buffer kept, the
\* lines visited (up to and including a sentinel), the payloads cut out of
\* them, the deltas yielded, and whether the generator returned.
ssePostLines(held, buf, lines, outcomes) ==
  LET stops == {k \in 1..Len(lines) : outcomes[k].act = "return"}
      n == IF stops = {} THEN Len(lines) ELSE CHOOSE k \in stops : \A j \in stops : k <= j
  IN  [held |-> held,
       buffer |-> buf,
       visited |-> SubSeq(lines, 1, n),
       payloads |-> Flatten([k \in 1..n |->
                      IF LineIsData(lines[k]) THEN <<LinePayload(lines[k])>> ELSE <<>>]),
       deltas |-> Flatten([k \in 1..n |->
                    IF outcomes[k].act = "yield" THEN <<outcomes[k].dlt>> ELSE <<>>]),
       returned |-> stops # {}]

\* The pass from `lines = parseSSELines(buffer)` on, `whole` being the buffer
\* with the decoded chunk added.
ssePostText(held, whole, lines) ==
  LET lastDoubleNL == LastIndexOfBlankLine(whole)
  IN  ssePostLines(held,
                   IF lastDoubleNL > 0 THEN From(whole, lastDoubleNL + 2) ELSE whole,
                   lines,
                   [k \in 1..Len(lines) |-> LineOutcome(lines[k])])

\* The pass from `buffer += ...` on, dec being what the decoder gave.
ssePostDecoded(buf, dec) ==
  ssePostText(dec.held, buf \o dec.text, parseSSELines(buf \o dec.text))

\* One pass of the read loop of ssePost for the chunk `value`, the decoder
\* holding `held` and `buffer` being buf.
ssePostChunk(held, buf, value) == ssePostDecoded(buf, TextDecoderDecode(held, value))

\* ------------------------------------------------------------------------
\* ssePost reading one response body that arrives in chunks
\* ------------------------------------------------------------------------

\* Most lines in one response body, most newlines after a line, most places at
\* which the body is cut into chunks.
MaxLines == 2
MaxNewlines == 3
MaxCuts == 1

\* The lines a server may send (UTF-8 bytes).
BodyLines ==
  { <<100, 97, 116, 97, 58, 32, 123, 34, 100, 101, 108, 116, 97, 34, 58, 34, 97, 34, 125>>,       \* data: {"delta":"a"}
    <<100, 97, 116, 97, 58, 32, 123, 34, 100, 101, 108, 116, 97, 34, 58, 34, 195, 169, 34, 125>>, \* data: {"delta":"é"}
    <<100, 97, 116, 97, 58, 123, 34, 100, 101, 108, 116, 97, 34, 58, 34, 98, 34, 125>>,            \* data:{"delta":"b"}
    <<58, 32, 107, 97>>,                                                                          \* : ka
    <<100, 97, 116, 97, 58, 32, 91, 68, 79, 78, 69, 93>>,                                          \* data: [DONE]
    <<100, 97, 116, 97, 58, 32, 110, 106>> }                                                       \* data: nj

\* A line followed by k newlines.
LineWithNewlines(line, k) == line \o [i \in 1..k |-> CP.nl]

\* The response bodies of at most n lines, each followed by 0..MaxNewlines
\* newlines.
RECURSIVE Bodies(_)
Bodies(n) ==
  IF n = 0 THEN {<<>>}
  ELSE LET shorter == Bodies(n - 1)
       IN  shorter \cup {b \o LineWithNewlines(l, k) :
                           b \in shorter, l \in BodyLines, k \in 0..MaxNewlines}

\* The sets of at most k offsets in 1..n.
RECURSIVE CutSets(_, _)
CutSets(n, k) ==
  IF k = 0 THEN {{}}
  ELSE LET fewer == CutSets(n, k - 1)
       IN  fewer \cup {c \cup {i} : c \in fewer, i \in 1..n}

\* No launch data and no request to the tip handler.
NoLaunch ==
  /\ subtle = TRUE /\ botToken = <<>> /\ issued = <<>> /\ signed = FALSE
  /\ initData = <<>> /\ tamper = "none" /\ vpc = "fresh"
  /\ verified = NoVerdict /\ extracted = IdNull
  /\ pc = "idle" /\ method = "none" /\ hasInitData = FALSE /\ ok = "none"
  /\ okValue = FALSE /\ status = 0 /\ tipCalled = FALSE /\ extractCalled = FALSE
  /\ userId = <<>>
  /\ level = BodyUndefined /\ errors = BodyUndefined /\ tipArgs = NoTipArgs

\* fetch has answered with a body; nothing is read yet.
InitDecode ==
  /\ NoLaunch
  /\ NoPage
  /\ resBody \in Bodies(MaxLines)
  /\ cuts \in CutSets(Len(resBody) - 1, MaxCuts)
  /\ offset = 0 /\ pending = <<>> /\ buffer = <<>>
  /\ forwarded = <<>> /\ payloads = <<>> /\ yielded = <<>>
  /\ gen = "reading"

\* Where the chunk that starts after `offset` ends.
ChunkEnd ==
  LET later == {c \in cuts : c > offset}
  IN  IF later = {} THEN Len(resBody) ELSE CHOOSE c \in later : \A d \in later : c <= d

\* reader.read() delivers the next chunk and the loop body runs on it.
ReaderRead ==
  /\ gen = "reading"
  /\ offset < Len(resBody)
  /\ LET r == ssePostChunk(pending, buffer, SubSeq(resBody, offset + 1, ChunkEnd))
     IN  /\ pending' = r.held
         /\ buffer' = r.buffer
         /\ forwarded' = forwarded \o r.visited
         /\ payloads' = payloads \o r.payloads
         /\ yielded' = yielded \o r.deltas
         /\ gen' = IF r.returned THEN "returned" ELSE "reading"
  /\ offset' = ChunkEnd
  /\ UNCHANGED <<resBody, cuts>>
  /\ UNCHANGED <<launchVars, callVars, handlerVars, chatVars>>

\* reader.read() reports done: the loop is left, `buffer` is dropped with the
\* generator.
ReaderDone ==
  /\ gen = "reading"
  /\ offset = Len(resBody)
  /\ gen' = "closed"
  /\ UNCHANGED <<resBody, cuts, offset, pending, buffer, forwarded, payloads, yielded>>
  /\ UNCHANGED <<launchVars, callVars, handlerVars, chatVars>>

NextDecode ==
  \/ ReaderRead
  \/ ReaderDone

\* ssePost on one response body cut into chunks.
SpecDecode == InitDecode /\ [][NextDecode]_vars

\* The body stays within what the models of UTF-8 and of JSON.parse cover.
BodyModelled ==
  /\ UTF8Modelled(resBody)
  /\ \A k \in 1..Len(payloads) :
       payloads[k] # DoneSentinel => ~JSONParse(payloads[k]).unsupported

\* ------------------------------------------------------------------------
\* Claims on the frame decoder
\* ------------------------------------------------------------------------

\* ssePost on the same body delivered as one chunk.
Unsplit == ssePostChunk(<<>>, <<>>, resBody)

\* C11: frame decoding is invariant under chunking: however the body is cut
\* into chunks, the frames emitted and forwarded (and so the deltas yielded)
\* are those of the uncut body.
C11_ChunkingInvariant ==
  gen # "reading" => (forwarded = Unsplit.visited /\ yielded = Unsplit.deltas)

\* The payloads of the lines of a frame that begin with "data:", the marker
\* and one following space, if there is one, removed.
MarkedPayloads(frame) ==
  LET ls == SplitOn(frame, CP.nl)
      strip(l) == IF StartsWith(l, 1, DataMarker) THEN From(l, Len(DataMarker) + 1)
                  ELSE From(l, Len(DataColon) + 1)
  IN  Flatten([k \in 1..Len(ls) |->
                 IF StartsWith(ls[k], 1, DataColon) THEN <<strip(ls[k])>> ELSE <<>>])

\* C16: of every frame, each line that begins with "data:" is forwarded as a
\* payload, the marker and one following space removed, wherever the line is
\* in the frame and whether or not a space follows the marker; other lines
\* are ignored.
C16_MarkedLinesForwarded ==
  payloads = Flatten([k \in 1..Len(forwarded) |-> MarkedPayloads(forwarded[k])])

\* ------------------------------------------------------------------------
\* src/frontend/pages/index.tsx: HomePage, the transcript and its chat turns
\* ------------------------------------------------------------------------
\* The literal texts of the page are abbreviated: "S" for the system prompt,
\* "G" for the greeting, "R" for the summary of an evaluation, "\n\n[E]" for
\* the bracketed network error note; the user types "q".

SystemPrompt == <<83>>
Greeting == <<71>>
EvaluationSummary == <<82>>
NetworkErrorNote == <<10, 10, 91, 69, 93>>
UserText == <<113>>

\* The content of topicContext, abbreviated to "T".
TopicContext == <<84>>

\* .slice(-20)
HistoryLimit == 20

\* seq.slice(-n)
SliceLast(seq, n) ==
  IF Len(seq) <= n THEN seq ELSE SubSeq(seq, Len(seq) - n + 1, Len(seq))

\* Most calls of handleSend, most chunks read (all turns together), most
\* evaluations that succeed.
MaxTurns == 2
MaxReads == 3
MaxEvaluations == 1

\* The chunks a reader may deliver: a delta frame after the delimiter of what
\* came before, a delta frame without its delimiter, an error frame, two
\* frames without a delta followed by the sentinel and a delta frame, and the
\* sentinel with no space after the marker.
ChunkTexts ==
  { \* \n\ndata: {"delta":"a"}\n\n
    <<10, 10, 100, 97, 116, 97, 58, 32, 123, 34, 100, 101, 108, 116, 97, 34, 58, 34, 97, 34,
      125, 10, 10>>,
    \* data: {"delta":"b"}
    <<100, 97, 116, 97, 58, 32, 123, 34, 100, 101, 108, 116, 97, 34, 58, 34, 98, 34, 125>>,
    \* data: {"error":"x"}\n\n
    <<100, 97, 116, 97, 58, 32, 123, 34, 101, 114, 114, 111, 114, 34, 58, 34, 120, 34, 125, 10,
      10>>,
    \* data: nj\n\ndata: {"x":1}\n\ndata: [DONE]\n\ndata: {"delta":"b"}\n\n
    <<100, 97, 116, 97, 58, 32, 110, 106, 10, 10, 100, 97, 116, 97, 58, 32, 123, 34, 120, 34,
      58, 49, 125, 10, 10, 100, 97, 116, 97, 58, 32, 91, 68, 79, 78, 69, 93, 10, 10, 100,
      97, 116, 97, 58, 32, 123, 34, 100, 101, 108, 116, 97, 34, 58, 34, 98, 34, 125, 10, 10>>,
    \* data:[DONE]\n\n
    <<100, 97, 116, 97, 58, 91, 68, 79, 78, 69, 93, 10, 10>> }

ChatMsg(role, content) == [role |-> role, content |-> content]

\* The updater of the for-await body: delta is appended to the last message
\* if that is an assistant message.
AppendToLast(prev, delta) ==
  IF Len(prev) = 0 THEN prev
  ELSE IF prev[Len(prev)].role # "assistant" THEN prev
  ELSE [prev EXCEPT ![Len(prev)].content = @ \o delta]

\* The updaters of the deltas of one chunk, in the order they were yielded.
RECURSIVE AppendAll(_, _)
AppendAll(prev, deltas) ==
  IF deltas = <<>> THEN prev
  ELSE AppendAll(AppendToLast(prev, deltas[1]), Tail(deltas))

\* A variant of DoneYields: what is left in the buffer is handled as a last
\* line.
DoneYields_Flush(buf) ==
  IF LineOutcome(buf).act = "yield" THEN <<LineOutcome(buf).dlt>> ELSE <<>>

\* Nothing is yielded when the reader reports done: the loop is left.
DoneYields(buf) == <<>>

\* A call of handleSend: the state of its generator (held, buffer), where it
\* stands (pc: "fetch", "read", "done") and how it ended (outcome: "none",
\* "sentinel", "closed", "threw"). Kept for the record: own, the index of the
\* assistant message the call appended; received, the bytes read; applied, the
\* deltas yielded; parsed, the payloads the loop cut out of the lines it
\* visited; nread, the number of chunks read; overlapped, whether the call
\* ran while another call of handleSend was under way. history is the
\* messages of the request body.
NewTurn(own, overlapped, history) ==
  [pc |-> "fetch", outcome |-> "none", held |-> <<>>, buffer |-> <<>>,
   history |-> history,
   own |-> own, received |-> <<>>, applied |-> <<>>, parsed |-> <<>>,
   nread |-> 0, overlapped |-> overlapped, cause |-> "none"]

\* A call of handleSend is under way.
SomeTurnOpen == \E t \in 1..Len(turns) : turns[t].pc # "done"

RECURSIVE TotalReads(_)
TotalReads(ts) == IF ts = <<>> THEN 0 ELSE ts[1].nread + TotalReads(Tail(ts))

\* const canSend, the input holding text.
canSend == ~sending /\ ~evaluating

InitChat ==
  /\ NoLaunch
  /\ NoStream
  /\ messages = <<ChatMsg("system", SystemPrompt), ChatMsg("assistant", Greeting)>>
  /\ sending = FALSE
  /\ evaluating = FALSE
  /\ turns = <<>>

\* handleSend up to its first await, called by the button (enabled by canSend)
\* or by Ctrl/Cmd+Enter in the input (handleKeyDown, no condition).
handleSend(via) ==
  /\ Len(turns) < MaxTurns
  /\ via = "button" => canSend
  /\ sending' = TRUE
  /\ messages' = messages \o <<ChatMsg("user", UserText), ChatMsg("assistant", <<>>)>>
  /\ turns' = Append([t \in 1..Len(turns) |->
                        IF turns[t].pc # "done"
                        THEN [turns[t] EXCEPT !.overlapped = TRUE] ELSE turns[t]],
                     NewTurn(Len(messages) + 2, SomeTurnOpen,
                             SliceLast(messages \o <<ChatMsg("system", TopicContext),
                                                     ChatMsg("user", UserText)>>,
                                       HistoryLimit)))
  /\ UNCHANGED evaluating
  /\ UNCHANGED <<launchVars, callVars, handlerVars, decodeVars>>

\* The catch and finally blocks of handleSend for turn t; kept for the
\* record: cause, what was thrown ("request": fetch rejected or answered
\* with a status that is not ok; "error", "abort": why reader.read() rejected).
CatchTurn(t, cause) ==
  /\ messages' = AppendToLast(messages, NetworkErrorNote)
  /\ turns' = [turns EXCEPT ![t].pc = "done", ![t].outcome = "threw",
                            ![t].cause = cause]
  /\ sending' = FALSE

\* await wakeBackend() is over and fetch has settled: with a response that is
\* ok, or with one that is not (or with a rejection), on which ssePost throws.
FetchSettles(t, resOk) ==
  /\ turns[t].pc = "fetch"
  /\ IF resOk
     THEN /\ turns' = [turns EXCEPT ![t].pc = "read"]
          /\ UNCHANGED <<messages, sending>>
     ELSE CatchTurn(t, "request")
  /\ UNCHANGED evaluating
  /\ UNCHANGED <<launchVars, callVars, handlerVars, decodeVars>>

\* reader.read() of turn t delivers a chunk: the loop body of ssePost runs and
\* handleSend applies the deltas it yields; a sentinel ends the generator and
\* the finally block runs.
ReadChunk(t, value) ==
  /\ turns[t].pc = "read"
  /\ TotalReads(turns) < MaxReads
  /\ LET r == ssePostChunk(turns[t].held, turns[t].buffer, value)
     IN  /\ messages' = AppendAll(messages, r.deltas)
         /\ turns' = [turns EXCEPT
                        ![t].held = r.held,
                        ![t].buffer = r.buffer,
                        ![t].received = @ \o value,
                        ![t].applied = @ \o r.deltas,
                        ![t].parsed = @ \o r.payloads,
                        ![t].nread = @ + 1,
                        ![t].pc = IF r.returned THEN "done" ELSE "read",
                        ![t].outcome = IF r.returned THEN "sentinel" ELSE "none"]
         /\ sending' = IF r.returned THEN FALSE ELSE sending
  /\ UNCHANGED evaluating
  /\ UNCHANGED <<launchVars, callVars, handlerVars, decodeVars>>

\* reader.read() of turn t rejects, on a transport error or because the
\* transport was aborted: nothing in ssePost catches it, so catch and finally
\* of handleSend run.
ReadFails(t, cause) ==
  /\ turns[t].pc = "read"
  /\ CatchTurn(t, cause)
  /\ UNCHANGED evaluating
  /\ UNCHANGED <<launchVars, callVars, handlerVars, decodeVars>>

\* A variant of ReadDone: the close is reported in the transcript like a
\* failure.
ReadDone_Annotates(t) ==
  /\ turns[t].pc = "read"
  /\ messages' = AppendToLast(messages, NetworkErrorNote)
  /\ turns' = [turns EXCEPT ![t].pc = "done", ![t].outcome = "closed"]
  /\ sending' = FALSE
  /\ UNCHANGED evaluating
  /\ UNCHANGED <<launchVars, callVars, handlerVars, decodeVars>>

\* reader.read() of turn t reports done: the generator ends, finally runs.
ReadDone(t) ==
  /\ turns[t].pc = "read"
  /\ messages' = AppendAll(messages, DoneYields(turns[t].buffer))
  /\ turns' = [turns EXCEPT ![t].pc = "done", ![t].outcome = "closed",
                            ![t].applied = @ \o DoneYields(turns[t].buffer)]
  /\ sending' = FALSE
  /\ UNCHANGED evaluating
  /\ UNCHANGED <<launchVars, callVars, handlerVars, decodeVars>>

\* The summaries in the transcript, whatever was appended to them since.
Evaluations ==
  Cardinality({i \in 1..Len(messages) :
                 StartsWith(messages[i].content, 1, EvaluationSummary)})

\* handleEvaluateTopic up to its first await (its button is disabled while
\* evaluating or sending; the topic is filled in).
handleEvaluateTopic ==
  /\ ~evaluating /\ ~sending
  /\ Evaluations < MaxEvaluations
  /\ evaluating' = TRUE
  /\ UNCHANGED <<messages, sending, turns>>
  /\ UNCHANGED <<launchVars, callVars, handlerVars, decodeVars>>

\* A variant of EvaluateSettles: the summary is appended as a system message.
EvaluateSettles_AsSystem(resOk) ==
  /\ evaluating
  /\ messages' = IF resOk THEN Append(messages, ChatMsg("system", EvaluationSummary))
                 ELSE messages
  /\ evaluating' = FALSE
  /\ UNCHANGED <<sending, turns>>
  /\ UNCHANGED <<launchVars, callVars, handlerVars, decodeVars>>

\* The request of handleEvaluateTopic settles: the summary is appended, or
\* the catch block alerts; finally.
EvaluateSettles(resOk) ==
  /\ evaluating
  /\ messages' = IF resOk THEN Append(messages, ChatMsg("assistant", EvaluationSummary))
                 ELSE messages
  /\ evaluating' = FALSE
  /\ UNCHANGED <<sending, turns>>
  /\ UNCHANGED <<launchVars, callVars, handlerVars, decodeVars>>

NextChat ==
  \/ \E via \in {"button", "key"} : handleSend(via)
  \/ \E t \in 1..Len(turns), resOk \in BOOLEAN : FetchSettles(t, resOk)
  \/ \E t \in 1..Len(turns), value \in ChunkTexts : ReadChunk(t, value)
  \/ \E t \in 1..Len(turns), cause \in {"error", "abort"} : ReadFails(t, cause)
  \/ \E t \in 1..Len(turns) : ReadDone(t)
  \/ handleEvaluateTopic
  \/ \E resOk \in BOOLEAN : EvaluateSettles(resOk)

\* The chat page: turns, which may overlap, and evaluations.
SpecChat == InitChat /\ [][NextChat]_vars

NextTurn ==
  \/ turns = <<>> /\ handleSend("button")
  \/ \E t \in 1..Len(turns), resOk \in BOOLEAN : FetchSettles(t, resOk)
  \/ \E t \in 1..Len(turns), value \in ChunkTexts : ReadChunk(t, value)
  \/ \E t \in 1..Len(turns), cause \in {"error", "abort"} : ReadFails(t, cause)
  \/ \E t \in 1..Len(turns) : ReadDone(t)

\* The chat page with one turn, sent by the button.
SpecTurn == InitChat /\ [][NextTurn]_vars

\* Most turns that ended with an empty answer before the first state.
MaxEarlierTurns == 10

\* The transcript after k turns whose streams closed without a delta.
RECURSIVE EarlierTranscript(_)
EarlierTranscript(k) ==
  IF k = 0 THEN <<ChatMsg("system", SystemPrompt), ChatMsg("assistant", Greeting)>>
  ELSE EarlierTranscript(k - 1) \o <<ChatMsg("user", UserText), ChatMsg("assistant", <<>>)>>

\* The page after earlier turns, none under way.
InitEarlier ==
  /\ NoLaunch
  /\ NoStream
  /\ \E k \in 0..MaxEarlierTurns : messages = EarlierTranscript(k)
  /\ sending = FALSE
  /\ evaluating = FALSE
  /\ turns = <<>>

\* The chat page with one turn after earlier turns.
SpecLaterTurn == InitEarlier /\ [][NextTurn]_vars

\* ------------------------------------------------------------------------
\* Claims on the chat turns
\* ------------------------------------------------------------------------

\* The complete frames of a text: what precedes each blank-line delimiter,
\* the delimiters taken from left to right; an undelimited tail is no frame.
RECURSIVE CompleteFrames(_)
CompleteFrames(text) ==
  LET at == {i \in 1..(Len(text) - 1) : text[i] = CP.nl /\ text[i + 1] = CP.nl}
      first == CHOOSE i \in at : \A j \in at : i <= j
  IN  IF at = {} THEN <<>>
      ELSE <<SubSeq(text, 1, first - 1)>> \o CompleteFrames(From(text, first + 2))

\* The payloads of the complete frames of a text, in stream order.
PayloadsOf(text) ==
  LET fs == CompleteFrames(text)
  IN  Flatten([k \in 1..Len(fs) |-> MarkedPayloads(fs[k])])

\* What a payload is to the accumulator: the "sentinel", an "error", a
\* "delta" (a text fragment), or "ignored" (not JSON, or neither field).
PayloadKind(p) ==
  IF p = DoneSentinel THEN "sentinel"
  ELSE LET e == JSONMember(p, ErrorName)
           d == JSONMember(p, DeltaName)
       IN  IF e.threw THEN "ignored"
           ELSE IF e.val.kind # "undefined" THEN "error"
           ELSE IF d.val.kind = "string" THEN "delta"
           ELSE "ignored"

\* The payloads that precede the first payload of one of the kinds.
Before(ps, kinds) ==
  LET at == {k \in 1..Len(ps) : PayloadKind(ps[k]) \in kinds}
  IN  IF at = {} THEN ps
      ELSE SubSeq(ps, 1, (CHOOSE k \in at : \A j \in at : k <= j) - 1)

\* The delta texts of the delta payloads of ps, in order.
DeltaTexts(ps) ==
  Flatten([k \in 1..Len(ps) |->
             IF PayloadKind(ps[k]) = "delta"
             THEN <<JSONMember(ps[k], DeltaName).val.txt>> ELSE <<>>])

\* The content of the assistant message that turn t appended.
OwnContent(t) == messages[turns[t].own].content

\* C12: every delta and every error annotation of a turn goes to the
\* assistant message that turn created, also when turns overlap or another
\* message is appended meanwhile: a step of turn t changes no other message.
C12_TurnWritesOwnMessage ==
  [][\A t \in 1..Len(turns) :
       (turns'[t].nread # turns[t].nread \/ turns'[t].pc # turns[t].pc) =>
         \A i \in 1..Len(messages) :
           i # turns[t].own => messages'[i] = messages[i]]_vars

\* C13: once a frame with an error payload has been received, the turn has
\* stopped consuming and ended as failed, and its assistant message holds the
\* partial content followed by an error annotation.
C13_ErrorPayloadEndsTurn ==
  \A t \in 1..Len(turns) :
    LET ps == Before(PayloadsOf(turns[t].received), {"sentinel"})
        partial == Flatten(DeltaTexts(Before(ps, {"error"})))
    IN  (\E k \in 1..Len(ps) : PayloadKind(ps[k]) = "error") =>
          /\ turns[t].pc = "done"
          /\ turns[t].outcome = "threw"
          /\ Len(OwnContent(t)) > Len(partial)
          /\ SubSeq(OwnContent(t), 1, Len(partial)) = partial

\* C14: when a turn fails on a read error or on a response that is not a
\* success, its assistant message keeps the content received so far and gets
\* a non-empty annotation after it.
C14_FailureAnnotatesOwnMessage ==
  [][\A t \in 1..Len(turns) :
       (turns[t].outcome = "none" /\ turns'[t].outcome = "threw") =>
         LET before == messages[turns[t].own].content
             after == messages'[turns[t].own].content
         IN  /\ Len(after) > Len(before)
             /\ SubSeq(after, 1, Len(before)) = before]_vars

\* C15: at the end of a turn the content of its assistant message is the
\* concatenation, in stream order, of the delta texts of the well-formed delta
\* frames received before termination; frames that are not JSON or carry
\* neither field add nothing.
C15_ContentIsConcatenation ==
  \A t \in 1..Len(turns) :
    turns[t].outcome \in {"sentinel", "closed"} =>
      OwnContent(t) =
        Flatten(DeltaTexts(Before(PayloadsOf(turns[t].received), {"sentinel", "error"})))

\* The payloads of the complete frames turn t has received.
Received(t) == PayloadsOf(turns[t].received)

\* The loop of turn t has cut the sentinel out of a line.
SentinelParsed(t) ==
  \E k \in 1..Len(turns[t].parsed) : turns[t].parsed[k] = DoneSentinel

\* C17: a frame whose payload is the sentinel yields no delta and stops the
\* consumer: once the loop has come to it the turn is over (nothing more is
\* read), it is the last payload looked at, so that no frame after it is
\* parsed or applied, and the deltas applied are those of the frames before.
C17_SentinelStops ==
  \A t \in 1..Len(turns) :
    SentinelParsed(t) =>
      /\ turns[t].pc = "done"
      /\ turns[t].outcome = "sentinel"
      /\ turns[t].parsed[Len(turns[t].parsed)] = DoneSentinel
      /\ turns[t].applied = DeltaTexts(Before(turns[t].parsed, {"sentinel"}))

\* A turn ended by a sentinel that a delta frame follows in the same chunk,
\* after a delta was applied.
C17_Witness ==
  \E t \in 1..Len(turns) :
    /\ turns[t].outcome = "sentinel"
    /\ turns[t].applied # <<>>
    /\ \E k, j \in 1..Len(Received(t)) :
         /\ k < j
         /\ PayloadKind(Received(t)[k]) = "sentinel"
         /\ PayloadKind(Received(t)[j]) = "delta"

\* C20: when the transport closes, text left in the buffer without its
\* delimiter is discarded: it is not emitted as a frame and changes nothing
\* in the transcript, even if it is a complete, well-formed data line.
C20_TailDiscardedAtClose ==
  [][\A t \in 1..Len(turns) :
       (turns[t].outcome = "none" /\ turns'[t].outcome = "closed") =>
         /\ messages' = messages
         /\ turns'[t].applied = turns[t].applied
         /\ turns'[t].parsed = turns[t].parsed]_vars

\* A stream that closed with a well-formed delta line left in the buffer,
\* after a delta was applied.
C20_Witness ==
  \E t \in 1..Len(turns) :
    /\ turns[t].outcome = "closed"
    /\ LineOutcome(turns[t].buffer).act = "yield"
    /\ turns[t].applied # <<>>
    /\ messages[Len(messages)].role = "assistant"

\* ------------------------------------------------------------------------
\* src/unnamed/part_002: HomePage with the assistant message found by index
\* ------------------------------------------------------------------------
\* The calls of handleSend modelled here do not overlap: each is made when the
\* one before it is over and the page has rendered again, so that `messages`
\* in the closure is the transcript.

\* history.length for a transcript of n messages: the transcript, the topic
\* context and the user message, cut to the last twenty.
HistoryLength(n) == IF n + 2 > HistoryLimit THEN HistoryLimit ELSE n + 2

\* A call of handleSend of this page: as NewTurn, with assistantIndex (here
\* counted from 1, so one more than in the source).
NewTurnAt(own, assistantIndex) ==
  [pc |-> "fetch", outcome |-> "none", held |-> <<>>, buffer |-> <<>>,
   own |-> own, received |-> <<>>, applied |-> <<>>, parsed |-> <<>>,
   nread |-> 0, overlapped |-> FALSE, cause |-> "none",
   assistantIndex |-> assistantIndex]

\* The updater of this page: the text is appended to copy[assistantIndex], an
\* empty assistant message standing in for an entry that is not there (the
\* index is never more than one past the end).
AppendAt(prev, idx, text) ==
  IF idx <= Len(prev) THEN [prev EXCEPT ![idx].content = @ \o text]
  ELSE Append(prev, ChatMsg("assistant", text))

\* The updaters of the deltas of one chunk, in order.
RECURSIVE AppendAllAt(_, _, _)
AppendAllAt(prev, idx, deltas) ==
  IF deltas = <<>> THEN prev
  ELSE AppendAllAt(AppendAt(prev, idx, deltas[1]), idx, Tail(deltas))

InitIndexed ==
  /\ NoLaunch
  /\ NoStream
  /\ \E k \in 0..MaxEarlierTurns : messages = EarlierTranscript(k)
  /\ sending = FALSE
  /\ evaluating = FALSE
  /\ turns = <<>>

\* handleSend up to its first await.
handleSendIndexed ==
  /\ Len(turns) < MaxTurns
  /\ ~SomeTurnOpen
  /\ sending' = TRUE
  /\ messages' = messages \o <<ChatMsg("user", UserText), ChatMsg("assistant", <<>>)>>
  /\ turns' = Append(turns, NewTurnAt(Len(messages) + 2, HistoryLength(Len(messages)) + 1))
  /\ UNCHANGED evaluating
  /\ UNCHANGED <<launchVars, callVars, handlerVars, decodeVars>>

\* The catch and finally blocks of handleSend for turn t.
CatchTurnIndexed(t) ==
  /\ messages' = AppendAt(messages, turns[t].assistantIndex, NetworkErrorNote)
  /\ turns' = [turns EXCEPT ![t].pc = "done", ![t].outcome = "threw"]
  /\ sending' = FALSE

\* fetch has settled: with a response that is ok, or ssePost throws.
FetchSettlesIndexed(t, resOk) ==
  /\ turns[t].pc = "fetch"
  /\ IF resOk
     THEN /\ turns' = [turns EXCEPT ![t].pc = "read"]
          /\ UNCHANGED <<messages, sending>>
     ELSE CatchTurnIndexed(t)
  /\ UNCHANGED evaluating
  /\ UNCHANGED <<launchVars, callVars, handlerVars, decodeVars>>

\* reader.read() of turn t delivers a chunk.
ReadChunkIndexed(t, value) ==
  /\ turns[t].pc = "read"
  /\ TotalReads(turns) < MaxReads
  /\ LET r == ssePostChunk(turns[t].held, turns[t].buffer, value)
     IN  /\ messages' = AppendAllAt(messages, turns[t].assistantIndex, r.deltas)
         /\ turns' = [turns EXCEPT
                        ![t].held = r.held,
                        ![t].buffer = r.buffer,
                        ![t].received = @ \o value,
                        ![t].applied = @ \o r.deltas,
                        ![t].parsed = @ \o r.payloads,
                        ![t].nread = @ + 1,
                        ![t].pc = IF r.returned THEN "done" ELSE "read",
                        ![t].outcome = IF r.returned THEN "sentinel" ELSE "none"]
         /\ sending' = IF r.returned THEN FALSE ELSE sending
  /\ UNCHANGED evaluating
  /\ UNCHANGED <<launchVars, callVars, handlerVars, decodeVars>>

\* reader.read() of turn t rejects.
ReadFailsIndexed(t) ==
  /\ turns[t].pc = "read"
  /\ CatchTurnIndexed(t)
  /\ UNCHANGED evaluating
  /\ UNCHANGED <<launchVars, callVars, handlerVars, decodeVars>>

\* reader.read() of turn t reports done.
ReadDoneIndexed(t) ==
  /\ turns[t].pc = "read"
  /\ turns' = [turns EXCEPT ![t].pc = "done", ![t].outcome = "closed"]
  /\ sending' = FALSE
  /\ UNCHANGED <<messages, evaluating>>
  /\ UNCHANGED <<launchVars, callVars, handlerVars, decodeVars>>

NextIndexed ==
  \/ handleSendIndexed
  \/ \E t \in 1..Len(turns), resOk \in BOOLEAN : FetchSettlesIndexed(t, resOk)
  \/ \E t \in 1..Len(turns), value \in ChunkTexts : ReadChunkIndexed(t, value)
  \/ \E t \in 1..Len(turns) : ReadFailsIndexed(t)
  \/ \E t \in 1..Len(turns) : ReadDoneIndexed(t)

\* The page of part_002: chat turns one after the other.
SpecIndexed == InitIndexed /\ [][NextIndexed]_vars

\* C18: the transcript is append-only but for the assistant message of the
\* turn under way: across turns that do not overlap, whatever the length of
\* the transcript, no step removes an entry, and an entry that changes keeps
\* its role and is the empty assistant message the current turn appended.
C18_AppendOnly ==
  [][(\A t \in 1..Len(turns') : ~turns'[t].overlapped) =>
       /\ Len(messages') >= Len(messages)
       /\ \A i \in 1..Len(messages) :
            messages'[i] # messages[i] =>
              /\ messages'[i].role = messages[i].role
              /\ \E t \in 1..Len(turns) :
                   turns[t].pc # "done" /\ turns[t].own = i]_vars

\* C19: a turn ends once: after the sentinel, a read error, a response that
\* is not a success, or an error payload, no delta or annotation of the turn
\* is applied and its assistant message does not change; a new turn appends
\* an empty assistant message of its own.
C19_TerminalIsFinal ==
  [][/\ \A t \in 1..Len(turns) :
          (\/ turns[t].outcome \in {"sentinel", "threw"}
           \/ \E k \in 1..Len(Received(t)) : PayloadKind(Received(t)[k]) = "error") =>
            /\ turns'[t].applied = turns[t].applied
            /\ messages'[turns[t].own] = messages[turns[t].own]
     /\ Len(turns') > Len(turns) =>
          /\ turns'[Len(turns')].own = Len(messages')
          /\ turns'[Len(turns')].own > Len(messages)
          /\ messages'[Len(messages')] = ChatMsg("assistant", <<>>)]_vars

\* C21: when the transport read of a turn is aborted the consumer ends
\* cleanly: nothing is thrown past the read loop, no frame is applied
\* afterwards, and the transcript is left with the partial content it had.
C21_AbortEndsCleanly ==
  [][\A t \in 1..Len(turns) :
       (turns[t].cause = "none" /\ turns'[t].cause = "abort") =>
         /\ turns'[t].outcome # "threw"
         /\ turns'[t].applied = turns[t].applied
         /\ messages' = messages]_vars

\* C22: the request body that opens a stream holds the full history: every
\* message of the transcript at the time of the send, in order, and then the
\* new user message, whatever the length of the transcript (the context
\* message the page adds before the user message is left out of the
\* comparison).
C22_BodyHoldsFullHistory ==
  [][Len(turns') > Len(turns) =>
       LET NotContext(m) == m # ChatMsg("system", TopicContext)
       IN  SelectSeq(turns'[Len(turns')].history, NotContext) =
             messages \o <<ChatMsg("user", UserText)>>]_vars

\* C23: after each chunk the buffer kept is exactly the text after the
\* delimiter of the last frame emitted from it (all of it when no frame was
\* emitted): nothing of a frame not yet emitted is dropped and nothing
\* emitted is kept, also with three or more newlines in a row.
C23_BufferIsRemainder ==
  [][offset' # offset =>
       LET chunk == SubSeq(resBody, offset + 1, offset')
           whole == buffer \o TextDecoderDecode(pending, chunk).text
           frames == CompleteFrames(whole)
           emitted == Len(Flatten(frames)) + 2 * Len(frames)
       IN  buffer' = From(whole, emitted + 1)]_vars

\* ------------------------------------------------------------------------
\* src/unnamed/part_001: Home, the plain chat page, and its send()
\* ------------------------------------------------------------------------
\* `sending` stands for the page's flag `streaming`.

\* "\n[error] " and the message of a response that is not ok, abbreviated
\* to "F".
ErrorPrefix == <<10, 91, 101, 114, 114, 111, 114, 93, 32>>
ServerErrorText == <<70>>

\* s.trim(), for the white space of the modelled texts.
Trim(s) ==
  LET inked == {i \in 1..Len(s) : s[i] \notin {9, 10, 11, 12, 13, 32}}
  IN  IF inked = {} THEN <<>>
      ELSE SubSeq(s, CHOOSE i \in inked : \A j \in inked : i <= j,
                     CHOOSE i \in inked : \A j \in inked : i >= j)

\* The setMessages updater of send: the content of the last message, if it is
\* an assistant message, becomes `assistant`.
SetLast(curr, assistant) ==
  IF Len(curr) > 0 /\ curr[Len(curr)].role = "assistant"
  THEN [curr EXCEPT ![Len(curr)].content = assistant]
  ELSE curr

\* The try block of send for one payload, e and d being what reading
\* json.error and json.delta gave: the new `assistant`, or nothing done when
\* JSON.parse raised.
sendParsed(assistant, e, d) ==
  IF e.threw THEN [caught |-> TRUE, assistant |-> assistant]
  ELSE IF JSTruthy(e.val)
  THEN [caught |-> FALSE, assistant |-> assistant \o ErrorPrefix \o e.val.txt]
  ELSE IF JSTruthy(d.val)
  THEN [caught |-> FALSE, assistant |-> assistant \o d.val.txt]
  ELSE [caught |-> FALSE, assistant |-> assistant]

\* The body of the loop over the lines of a chunk, from line k on, for the
\* payload already cut out of line k.
RECURSIVE sendLines(_, _, _, _)

sendPayload(lines, k, assistant, curr, payload) ==
  IF payload = DoneSentinel
  THEN [assistant |-> assistant, messages |-> curr, returned |-> TRUE]
  ELSE LET r == sendParsed(assistant, JSONMember(payload, ErrorName),
                           JSONMember(payload, DeltaName))
       IN  sendLines(lines, k + 1, r.assistant,
                     IF r.caught THEN curr ELSE SetLast(curr, r.assistant))

\* for (const line of lines), from line k on.
sendLines(lines, k, assistant, curr) ==
  IF k > Len(lines)
  THEN [assistant |-> assistant, messages |-> curr, returned |-> FALSE]
  ELSE IF ~StartsWith(lines[k], 1, DataColon)
  THEN sendLines(lines, k + 1, assistant, curr)
  ELSE sendPayload(lines, k, assistant, curr,
                   Trim(From(lines[k], Len(DataColon) + 1)))

\* One pass of the read loop of send, dec being what the decoder gave.
sendChunk(dec, assistant, curr) == sendLines(SplitOn(dec.text, CP.nl), 1, assistant, curr)

InitPlain ==
  /\ NoLaunch
  /\ NoStream
  /\ messages = <<ChatMsg("system", SystemPrompt)>>
  /\ sending = FALSE
  /\ evaluating = FALSE
  /\ turns = <<>>

\* send() up to its await of fetch.
send ==
  /\ Len(turns) < MaxTurns
  /\ ~sending
  /\ messages' = Append(messages, ChatMsg("user", UserText))
  /\ sending' = TRUE
  /\ turns' = Append(turns, [pc |-> "fetch", outcome |-> "none", held |-> <<>>,
                             assistant |-> <<>>, nread |-> 0])
  /\ UNCHANGED evaluating
  /\ UNCHANGED <<launchVars, callVars, handlerVars, decodeVars>>

\* fetch settles: with a response that is ok ("ok"), with one that is not
\* ("status"), or it rejects ("rejects") and the rejection leaves send.
sendFetchSettles(t, res) ==
  /\ turns[t].pc = "fetch"
  /\ CASE res = "ok" ->
            /\ messages' = Append(messages, ChatMsg("assistant", <<>>))
            /\ turns' = [turns EXCEPT ![t].pc = "read"]
            /\ UNCHANGED sending
       [] res = "status" ->
            /\ messages' = Append(messages, ChatMsg("assistant", ServerErrorText))
            /\ turns' = [turns EXCEPT ![t].pc = "done", ![t].outcome = "status"]
            /\ sending' = FALSE
       [] OTHER ->
            /\ turns' = [turns EXCEPT ![t].pc = "done", ![t].outcome = "threw"]
            /\ UNCHANGED <<messages, sending>>
  /\ UNCHANGED evaluating
  /\ UNCHANGED <<launchVars, callVars, handlerVars, decodeVars>>

\* What a read of turn t that delivered a chunk leaves, r being the pass of
\* the loop over it.
sendReadResult(t, held, r) ==
  /\ messages' = r.messages
  /\ turns' = [turns EXCEPT
                 ![t].held = held,
                 ![t].assistant = r.assistant,
                 ![t].nread = @ + 1,
                 ![t].pc = IF r.returned THEN "done" ELSE "read",
                 ![t].outcome = IF r.returned THEN "sentinel" ELSE "none"]
  /\ sending' = IF r.returned THEN FALSE ELSE sending

sendReadDecoded(t, dec) ==
  sendReadResult(t, dec.held, sendChunk(dec, turns[t].assistant, messages))

\* reader.read() of turn t delivers a chunk.
sendRead(t, value) ==
  /\ turns[t].pc = "read"
  /\ TotalReads(turns) < MaxReads
  /\ sendReadDecoded(t, TextDecoderDecode(turns[t].held, value))
  /\ UNCHANGED evaluating
  /\ UNCHANGED <<launchVars, callVars, handlerVars, decodeVars>>

\* reader.read() of turn t rejects: nothing catches it, the rejection leaves
\* send.
sendReadFails(t) ==
  /\ turns[t].pc = "read"
  /\ turns' = [turns EXCEPT ![t].pc = "done", ![t].outcome = "threw"]
  /\ UNCHANGED <<messages, sending, evaluating>>
  /\ UNCHANGED <<launchVars, callVars, handlerVars, decodeVars>>

\* reader.read() of turn t reports done: the loop is left, setStreaming(false).
sendReadDone(t) ==
  /\ turns[t].pc = "read"
  /\ turns' = [turns EXCEPT ![t].pc = "done", ![t].outcome = "closed"]
  /\ sending' = FALSE
  /\ UNCHANGED <<messages, evaluating>>
  /\ UNCHANGED <<launchVars, callVars, handlerVars, decodeVars>>

NextPlain ==
  \/ send
  \/ \E t \in 1..Len(turns), res \in {"ok", "status", "rejects"} : sendFetchSettles(t, res)
  \/ \E t \in 1..Len(turns), value \in ChunkTexts : sendRead(t, value)
  \/ \E t \in 1..Len(turns) : sendReadFails(t)
  \/ \E t \in 1..Len(turns) : sendReadDone(t)

\* The plain chat page.
SpecPlain == InitPlain /\ [][NextPlain]_vars

\* C24: every chat turn ends with the busy flag of the page reset, whichever
\* way the stream ends (sentinel, close, a status that is not a success, a
\* failed request, a read error): when no turn is under way the flag is false
\* and a new turn can be started.
C24_BusyFlagReset ==
  (\A t \in 1..Len(turns) : turns[t].pc = "done") => ~sending

C26_OneResponse ==
  /\ pc # "exited"
  /\ pc = "done" =>
       status = IF method # "POST" THEN 405
                ELSE IF ~hasInitData \/ initData = <<>> THEN 400
                ELSE IF verifyTelegramInitData(initData, botToken).threw THEN 500
                ELSE IF status = 401 THEN 401
                ELSE IF status = 500 /\ tipCalled THEN 500
                ELSE 200

\* How far a level, a list of errors or one entry goes beyond its limit.
MaxOver == 1

\* "expert", and a text of n letters x
TxtExpert == <<101, 120, 112, 101, 114, 116>>
LongText(n) == [i \in 1..n |-> 120]

\* A text whose code units EntryLimit and EntryLimit + 1 are the two halves
\* of one character outside the basic plane (U+1F600).
PairAtLimit == LongText(EntryLimit - 1) \o <<55357, 56832>>

\* The levels a request may carry: absent, null, false, 0, "", the three
\* levels in several spellings, another word, U+0130 in place of I, a
\* number, arrays, objects.
LevelInputs ==
  { BodyUndefined, BodyNull, BodyBool(FALSE), BodyBool(TRUE), BodyNumber(0),
    BodyNumber(7), BodyString(<<>>), BodyString(TxtBeginner),
    BodyString(<<73, 110, 116, 101, 114, 109, 101, 100, 105, 97, 116, 101>>),
    BodyString(<<65, 68, 86, 65, 78, 67, 69, 68>>),
    BodyString(TxtExpert),
    BodyString(<<66, 69, 71, 304, 78, 78, 69, 82>>),
    BodyArray(<<>>),
    BodyArray(<<BodyString(<<65, 100, 118, 97, 110, 99, 101, 100>>)>>),
    BodyObject, BodyOpaque }

\* The entries of an errors array.
EntryInputs ==
  { BodyString(LongText(k)) : k \in {0, EntryLimit, EntryLimit + MaxOver} }
    \cup { BodyString(PairAtLimit), BodyNumber(12), BodyNull, BodyObject,
           BodyArray(<<BodyString(LongText(EntryLimit)), BodyNumber(3)>>),
           BodyOpaque }

\* The errors a request may carry: absent, null, a string, an object, and
\* arrays of up to ErrorsLimit + MaxOver entries.
ErrorsInputs ==
  { BodyUndefined, BodyNull, BodyString(TxtExpert), BodyObject }
    \cup { BodyArray([i \in 1..n |-> e]) :
             e \in EntryInputs, n \in {0, 1, ErrorsLimit, ErrorsLimit + MaxOver} }
    \cup { BodyArray([i \in 1..(ErrorsLimit + MaxOver) |->
                        IF i <= ErrorsLimit THEN BodyNumber(i) ELSE BodyOpaque]) }

\* A request with validly signed launch data and any level and errors.
InitTip ==
  /\ subtle \in BOOLEAN
  /\ botToken = <<83>>
  /\ issued = Issue(<<>>, "valid", botToken)
  /\ signed = TRUE
  /\ initData = issued
  /\ tamper = "none"
  /\ vpc = "fresh"
  /\ verified = NoVerdict
  /\ extracted = IdNull
  /\ pc = "idle"
  /\ method = "none"
  /\ hasInitData = FALSE
  /\ ok = "none"
  /\ okValue = FALSE
  /\ status = 0
  /\ tipCalled = FALSE
  /\ extractCalled = FALSE
  /\ userId = <<>>
  /\ level \in LevelInputs
  /\ errors \in ErrorsInputs
  /\ tipArgs = NoTipArgs
  /\ NoStream
  /\ NoPage

\* One request to the tip handler, with a level and errors.
SpecTip == InitTip /\ [][Next]_vars

\* txt is the word under some choice of upper and lower case of its letters.
MatchesIgnoringCase(txt, word) ==
  /\ Len(txt) = Len(word)
  /\ \A i \in 1..Len(txt) :
       txt[i] = word[i] \/ (txt[i] \in 65..90 /\ txt[i] + 32 = word[i])

\* The level the text stands for, beginner when it stands for none.
LevelNamed(txt) ==
  IF \E a \in allowed : MatchesIgnoringCase(txt, a)
  THEN CHOOSE a \in allowed : MatchesIgnoringCase(txt, a)
  ELSE TxtBeginner

\* generateTip gets at most ErrorsLimit errors, each a text of at most
\* EntryLimit code units, and none when errors is not an array.
ErrorsBounded ==
  /\ Len(tipArgs.errors) <= ErrorsLimit
  /\ \A i \in 1..Len(tipArgs.errors) : Len(tipArgs.errors[i]) <= EntryLimit
  /\ errors.kind # "array" => tipArgs.errors = <<>>

\* C27 as stated: generateTip is called only with a level of the three, the
\* level of the request when it is one of them in any letter case and
\* beginner for any other or missing level, and with at most 20 errors of at
\* most 200 characters each, none when errors is not an array.
C27_NormalisedArguments ==
  tipCalled =>
    /\ tipArgs.level \in allowed
    /\ tipArgs.level = IF level.kind = "string" THEN LevelNamed(level.txt)
                       ELSE TxtBeginner
    /\ ErrorsBounded

\* C27 amended: the level is compared by its string form, so that a value
\* that is not a string but prints as one of the three levels (an array of
\* one such string) is passed on as that level.
C27_NormalisedByStringForm ==
  tipCalled =>
    /\ tipArgs.level \in allowed
    /\ tipArgs.level = IF Falsy(level) THEN TxtBeginner
                       ELSE LevelNamed(StringOf(level).value)
    /\ ErrorsBounded

\* generateTip was called for a request whose level is none of the three and
\* whose errors exceed both limits.
C27_Witness ==
  /\ tipCalled
  /\ level = BodyString(TxtExpert)
  /\ errors.kind = "array"
  /\ Len(errors.items) > ErrorsLimit
  /\ \E i \in 1..Len(errors.items) : Len(StringOf(errors.items[i]).value) > EntryLimit
  /\ Len(tipArgs.errors) = ErrorsLimit

\* ------------------------------------------------------------------------
\* Claims on the chat page as a whole
\* ------------------------------------------------------------------------

\* C28: at most one operation on the transcript is in flight: handleSend
\* starts a stream, by the button or by Ctrl/Cmd+Enter, only while neither a
\* turn is streaming (sending) nor an evaluation is running (evaluating), and
\* sending is true for as long as any stream is in flight.
C28_OneOperationInFlight ==
  [][ /\ Len(turns') > Len(turns) => (~sending /\ ~evaluating)
      /\ (\E t \in 1..Len(turns') : turns'[t].pc # "done") => sending' ]_vars

\* ------------------------------------------------------------------------
\* Launch data whose fields are replaced while the hash field is kept
\* ------------------------------------------------------------------------

\* The key=value pieces, as they appear in the raw string:
\*   a=1   b=2   a=1%0Ab=2   a=1%0Ab%3D2   __proto__=1
SwapPairs ==
  { <<97, 61, 49>>,
    <<98, 61, 50>>,
    <<97, 61, 49, 37, 48, 65, 98, 61, 50>>,
    <<97, 61, 49, 37, 48, 65, 98, 37, 51, 68, 50>>,
    <<95, 95, 112, 114, 111, 116, 111, 95, 95, 61, 49>> }

\* Sequences of at most n of these pieces.
RECURSIVE SwapLists(_)
SwapLists(n) ==
  IF n = 0 THEN {<<>>}
  ELSE LET shorter == SwapLists(n - 1)
       IN  shorter \cup {Append(l, p) : l \in shorter, p \in SwapPairs}

\* The host issues validly signed launch data under the secret "S".
InitSwap ==
  /\ subtle = TRUE
  /\ botToken = <<83>>
  /\ \E pieces \in SwapLists(MaxFields) : issued = Issue(pieces, "valid", botToken)
  /\ signed = TRUE
  /\ initData = issued
  /\ tamper = "none"
  /\ vpc = "fresh"
  /\ verified = NoVerdict
  /\ extracted = IdNull
  /\ pc = "idle"
  /\ method = "none"
  /\ hasInitData = FALSE
  /\ ok = "none"
  /\ okValue = FALSE
  /\ status = 0
  /\ tipCalled = FALSE
  /\ extractCalled = FALSE
  /\ userId = <<>>
  /\ level = BodyUndefined
  /\ errors = BodyUndefined
  /\ tipArgs = NoTipArgs
  /\ NoStream
  /\ NoPage

\* The value of the hash field of raw, as URLSearchParams reads it.
HashOf(raw) ==
  LET params == URLSearchParams(raw)
  IN  LastValue(params, HashName)

\* Other fields are presented with the hash value of the issued launch data.
Replace(pieces) ==
  /\ vpc = "fresh" /\ tamper = "none"
  /\ initData' = Join(Append(pieces, HashName \o <<CP.eq>> \o HashOf(issued)),
                      <<CP.amp>>)
  /\ initData' # initData
  /\ tamper' = "replace"
  /\ UNCHANGED <<subtle, botToken, issued, signed>>
  /\ UNCHANGED callVars
  /\ UNCHANGED handlerVars
  /\ UNCHANGED decodeVars
  /\ UNCHANGED chatVars

NextSwap ==
  \/ \E pieces \in SwapLists(MaxFields) : Replace(pieces)
  \/ Verify
  \/ Extract

\* The verifier called on launch data as issued or with its fields replaced.
SpecSwap == InitSwap /\ [][NextSwap]_vars

\* The parsed field mapping of raw, hash excluded: every name with the value
\* of its last occurrence.
FieldMapping(raw) ==
  LET params == URLSearchParams(raw)
  IN  {<<name, LastValue(params, name)>> : name \in FieldNames(params) \ {HashName}}

\* C29: two inputs whose parsed field mappings (hash excluded) differ never
\* yield the same canonical check-string, and so never both verify against
\* the same hash value, also when a value holds a decoded newline followed
\* by text of the form key=value.
C29_CheckStringIdentifiesFields ==
  FieldMapping(issued) # FieldMapping(initData) =>
    /\ CheckString(VerifierData(issued)) # CheckString(VerifierData(initData))
    /\ ~(/\ vpc # "fresh"
         /\ verified = Returned(TRUE)
         /\ verifyTelegramInitData(issued, botToken) = Returned(TRUE))

\* One turn, sent by the button or by Ctrl/Cmd+Enter, and evaluations.
NextPage ==
  \/ turns = <<>> /\ \E via \in {"button", "key"} : handleSend(via)
  \/ \E t \in 1..Len(turns), resOk \in BOOLEAN : FetchSettles(t, resOk)
  \/ \E t \in 1..Len(turns), value \in ChunkTexts : ReadChunk(t, value)
  \/ \E t \in 1..Len(turns), cause \in {"error", "abort"} : ReadFails(t, cause)
  \/ \E t \in 1..Len(turns) : ReadDone(t)
  \/ handleEvaluateTopic
  \/ \E resOk \in BOOLEAN : EvaluateSettles(resOk)

\* The chat page with one turn and evaluations.
SpecPage == InitChat /\ [][NextPage]_vars

\* The transcript is non-empty and ends with an assistant message.
EndsWithAssistant(msgs) == msgs # <<>> /\ msgs[Len(msgs)].role = "assistant"

\* What a turn has written: the deltas applied and, when it threw, the note.
WrittenBy(turn) ==
  Flatten(turn.applied) \o (IF turn.outcome = "threw" THEN NetworkErrorNote ELSE <<>>)

\* C30: after every update of the transcript (initial state, start of a turn,
\* a delta, an error annotation, an evaluation summary) the transcript is
\* non-empty and its last message is an assistant message, so that no delta
\* and no error annotation is discarded by the guards of the updaters: what a
\* turn writes in a step is added to the content of the last message.
C30_LastIsAssistant ==
  [][ /\ EndsWithAssistant(messages)
      /\ EndsWithAssistant(messages')
      /\ \A t \in 1..Len(turns) :
           (Len(turns') = Len(turns) /\ WrittenBy(turns'[t]) # WrittenBy(turns[t])) =>
             /\ Len(messages') = Len(messages)
             /\ messages'[Len(messages')].content
                  = messages[Len(messages)].content
                      \o SubSeq(WrittenBy(turns'[t]), Len(WrittenBy(turns[t])) + 1,
                                Len(WrittenBy(turns'[t]))) ]_vars

\* A turn applied a delta and then failed, and an evaluation summary was
\* appended.
C30_Witness ==
  /\ Evaluations > 0
  /\ \E t \in 1..Len(turns) :
       /\ turns[t].outcome = "threw"
       /\ Flatten(turns[t].applied) # <<>>

====
